---- MODULE Spec2Model ----
(***************************************************************************)
(* Model of the AB1 chromatogram reader: the chromatogram data model held  *)
(* by ChromatogramCanvas and AB1ReaderApp, its base-edit and destructive   *)
(* trim operations, the EditHistory undo/redo stack and the dependent view *)
(* state (selection, search matches, modification markers, viewport).      *)
(*                                                                         *)
(* Strings are sequences of one-character strings; base indices are the    *)
(* 0-based indices of the JavaScript source, so element i of an array is    *)
(* arr[i + 1] here.  Numbers that JavaScript computes from `undefined`      *)
(* are the value NaN.                                                      *)
(***************************************************************************)
EXTENDS Integers, Sequences, FiniteSets, TLC

(***************************************************************************)
(* Bounds of the model                                                     *)
(***************************************************************************)
\* maxSize handed to the EditHistory constructor (the application uses 100)
MaxSize == 2
\* largest index handed to an inbound command (arguments range over -1..MaxArg)
MaxArg == 2
\* container.clientWidth, in pixels
ContainerWidth == 30
MaxCount == 2
MaxScores == 12

(***************************************************************************)
(* Program constants                                                       *)
(***************************************************************************)
tracePadding == 10
DefaultXScale == 2
MaxXScale == 10
NaN == -1000000

Min(a, b) == IF a <= b THEN a ELSE b
Max(a, b) == IF a >= b THEN a ELSE b

(***************************************************************************)
(* JavaScript arithmetic and array primitives used by the source           *)
(***************************************************************************)
\* a - b, a + b on numbers: NaN is contagious (undefined - 10 is NaN)
JsSub(a, b) == IF a = NaN \/ b = NaN THEN NaN ELSE a - b
JsAdd(a, b) == IF a = NaN \/ b = NaN THEN NaN ELSE a + b
\* Math.max / Math.min return NaN when an argument is NaN
JsMax(a, b) == IF a = NaN \/ b = NaN THEN NaN ELSE Max(a, b)
JsMin(a, b) == IF a = NaN \/ b = NaN THEN NaN ELSE Min(a, b)
\* arr[i]: undefined (NaN in arithmetic) outside the array
JsIndex(arr, i) == IF i >= 0 /\ i < Len(arr) THEN arr[i + 1] ELSE NaN
\* relative index of Array.prototype.slice: NaN is 0, negatives count from the end
SliceIndex(n, x) == IF x = NaN THEN 0 ELSE IF x < 0 THEN Max(n + x, 0) ELSE Min(x, n)
\* Array.prototype.slice(a, b)
JsSlice(arr, a, b) == SubSeq(arr, SliceIndex(Len(arr), a) + 1, SliceIndex(Len(arr), b))
\* index clamp of String.prototype.substring: NaN and negatives are 0
SubstringIndex(n, x) == IF x = NaN \/ x < 0 THEN 0 ELSE Min(x, n)
\* String.prototype.substring(a, b): the arguments are swapped when a > b
JsSubstring(s, a, b) == SubSeq(s, Min(SubstringIndex(Len(s), a), SubstringIndex(Len(s), b)) + 1, Max(SubstringIndex(Len(s), a), SubstringIndex(Len(s), b)))

(***************************************************************************)
(* Rational numbers <<n, d>> with d > 0, in lowest terms: the zoom scale   *)
(***************************************************************************)
RECURSIVE Gcd(_, _)
Gcd(a, b) == IF b = 0 THEN a ELSE Gcd(b, a % b)
Abs(a) == IF a < 0 THEN -a ELSE a
Rat(n, d) == <<n \div Gcd(Abs(n), d), d \div Gcd(Abs(n), d)>>
RatLess(p, q) == p[1] * q[2] < q[1] * p[2]
RatMul(p, q) == Rat(p[1] * q[1], p[2] * q[2])
RatDiv(p, q) == Rat(p[1] * q[2], p[2] * q[1])
\* Math.ceil(k * p) and Math.floor of a rational
CeilTimes(k, p) == -((-(k * p[1])) \div p[2])
RatFloor(p) == p[1] \div p[2]
MinXScaleRat == <<1, 2>>
MaxXScaleRat == <<MaxXScale, 1>>
DefaultXScaleRat == <<DefaultXScale, 1>>

(***************************************************************************)
(* The files the main process can parse and hand to the renderer           *)
(***************************************************************************)
\* the data object of abif_parse_file: sequence, qualityScores, peakLocations
\* and the length of each processed trace channel
EmptyFile == [sequence |-> <<>>, qualityScores |-> <<>>, peakLocations |-> <<>>, traceLength |-> 0]
FileGA == [sequence |-> <<"G", "A">>, qualityScores |-> <<30, 20>>, peakLocations |-> <<5, 30>>, traceLength |-> 36]
\* a file whose quality tag (PCON) is absent: getQualityScores returns []
FileNoQuality == [sequence |-> <<"A">>, qualityScores |-> <<>>, peakLocations |-> <<5>>, traceLength |-> 16]
Files == {EmptyFile, FileGA, FileNoQuality}

\* bases offered by the BaseEditor buttons ("" is the Del button)
NewBases == {"G", ""}
Bases == {"A", "G", "N"}
Args == -1 .. MaxArg

\* the base a popover left open over a load still shows
StaleBase == "A"
NoSelection == [start |-> -1, end |-> -1]
NoCall == [op |-> "none"]
NoRun == [edits |-> 0, undos |-> 0, start |-> <<>>]

VARIABLES
  loaded,            \* AB1ReaderApp.chromatogram / fileData are set
  sequence,          \* fileData.sequence = chromatogram.sequence
  qualityScores,     \* chromatogram.qualityScores
  peakLocations,     \* chromatogram.peakLocations
  traces,            \* [lo, hi): the samples of the loaded file each trace channel still holds
  selection,         \* chromatogram.selection
  searchMatches,     \* chromatogram.searchMatches
  currentMatchIndex, \* chromatogram.currentMatchIndex
  modifications,     \* chromatogram.modifications
  scrollX,           \* chromatogram.scrollX = wrapper.scrollLeft
  xScale,            \* chromatogram.xScale
  undoStack,         \* editHistory.undoStack
  redoStack,         \* editHistory.redoStack
  fitPending,        \* the fitToView timer of onFileLoaded has not fired yet
  isDragging,        \* ChromatogramCanvas.isDragging
  dragStartBase,     \* ChromatogramCanvas.dragStartBase
  dragCurrentBase,   \* ChromatogramCanvas.dragCurrentBase
  hoveredBase,       \* ChromatogramCanvas.hoveredBase
  emitted,           \* the callbacks the last handler invoked (onSelectionChange, onBaseClick, onBaseHover)
  call,              \* the last command or pointer event and its result
  run,               \* observer: the current run of consecutive edits followed by undos
  parser,            \* the ABIFParser of the last abif_parse_file request
  raw,               \* chromatogram.rawTraces and the abif_get_raw_traces requests in flight
  pointer            \* observer: the offset of the pointer in the wrapper at its last event, -1 before any

vars == <<loaded, sequence, qualityScores, peakLocations, traces, selection, searchMatches, currentMatchIndex, modifications, scrollX, xScale, undoStack, redoStack, fitPending, isDragging, dragStartBase, dragCurrentBase, hoveredBase, emitted, call, run, parser, raw, pointer>>
modelVars == <<sequence, qualityScores, peakLocations, traces>>
viewVars == <<selection, searchMatches, currentMatchIndex, modifications>>
histVars == <<undoStack, redoStack>>
dragVars == <<isDragging, dragStartBase, dragCurrentBase, hoveredBase>>
\* what the renderer holds of the file on display
appVars == <<loaded, modelVars, viewVars, histVars, scrollX, xScale, fitPending, dragVars, emitted>>
\* no file has been requested: a parser of no bytes that was never parsed
NoParser ==
  [buffer |-> <<>>, header |-> [null |-> TRUE], directory |-> <<>>, parsed |-> FALSE,
   tags |-> {}, warnings |-> 0, decoded |-> 0]
\* no raw traces: the canvas of no file, with no request in flight; installed
\* says that chromatogram.rawTraces is set, file, lo and hi name the samples
\* [lo, hi) of the file it was read from, current is the file on display
NoRaw ==
  [requests |-> {}, installed |-> FALSE, file |-> EmptyFile, lo |-> 0, hi |-> 0,
   current |-> EmptyFile]

TraceLength(t) == t.hi - t.lo

Init ==
  /\ loaded = FALSE
  /\ sequence = <<>>
  /\ qualityScores = <<>>
  /\ peakLocations = <<>>
  /\ traces = [lo |-> 0, hi |-> 0]
  /\ selection = NoSelection
  /\ searchMatches = <<>>
  /\ currentMatchIndex = -1
  /\ modifications = {}
  /\ scrollX = 0
  /\ xScale = DefaultXScaleRat
  /\ undoStack = <<>>
  /\ redoStack = <<>>
  /\ fitPending = FALSE
  /\ isDragging = FALSE
  /\ dragStartBase = -1
  /\ dragCurrentBase = -1
  /\ hoveredBase = -1
  /\ emitted = <<>>
  /\ call = NoCall
  /\ run = NoRun
  /\ parser = NoParser
  /\ raw = NoRaw
  /\ pointer = -1

(***************************************************************************)
(* Viewport                                                                *)
(***************************************************************************)
\* canvas.width of _updateCanvasSize for a trace length and a scale
CanvasWidth(traceLen, scale) == Max(CeilTimes(traceLen, scale), ContainerWidth)
\* wrapper.scrollLeft = x: the browser clamps to the scrollable range and
\* keeps whole pixels; NaN scrolls to 0
ScrollTo(x, traceLen, scale) ==
  IF x = NaN THEN 0 ELSE Max(0, Min(x, CanvasWidth(traceLen, scale) - ContainerWidth))
\* a clamp with the upper limit only
ClampScaleUpperOnly(scale) ==
  IF RatLess(MaxXScaleRat, scale) THEN MaxXScaleRat ELSE scale
\* Math.max(minXScale, Math.min(maxXScale, scale))
ClampScale(scale) ==
  IF RatLess(scale, MinXScaleRat) THEN MinXScaleRat
  ELSE IF RatLess(MaxXScaleRat, scale) THEN MaxXScaleRat ELSE scale
\* a zoom that keeps the scroll offset instead of the centre
SetZoomKeepsScroll(scale, oldScale, oldScroll, traceLen) ==
  LET s == ClampScale(scale)
  IN IF s = oldScale THEN <<oldScale, oldScroll>>
     ELSE <<s, ScrollTo(oldScroll, traceLen, s)>>
\* setZoom(scale) on a canvas with the given scroll offset, scale and trace
\* length: the new <<scale, scrollX>>
SetZoom(scale, oldScale, oldScroll, traceLen) ==
  LET s == ClampScale(scale)
      \* (scrollX + W/2) / xScale * newScale - W/2
      target == RatFloor(Rat((2 * oldScroll + ContainerWidth) * s[1] * oldScale[2] - ContainerWidth * s[2] * oldScale[1], 2 * s[2] * oldScale[1]))
  IN IF s = oldScale THEN <<oldScale, oldScroll>>
     ELSE <<s, ScrollTo(target, traceLen, s)>>
\* a fit that returns early on an empty trace
FitToViewSkipsEmpty(oldScale, oldScroll, traceLen) ==
  IF traceLen = 0 THEN <<oldScale, oldScroll>>
  ELSE SetZoom(Rat(ContainerWidth, traceLen), oldScale, oldScroll, traceLen)
\* a fit relative to the scale on display
FitToViewRelative(oldScale, oldScroll, traceLen) ==
  IF traceLen = 0 THEN SetZoom(MaxXScaleRat, oldScale, oldScroll, traceLen)
  ELSE SetZoom(RatMul(oldScale, Rat(ContainerWidth, traceLen)), oldScale, oldScroll, traceLen)
\* fitToView(): containerWidth / dataLength; x / 0 is Infinity, clamped to the maximum
FitToView(oldScale, oldScroll, traceLen) ==
  IF traceLen = 0 THEN SetZoom(MaxXScaleRat, oldScale, oldScroll, traceLen)
  ELSE SetZoom(Rat(ContainerWidth, traceLen), oldScale, oldScroll, traceLen)

(***************************************************************************)
(* Load: AB1ReaderApp.onFileLoaded and ChromatogramCanvas.loadData         *)
(***************************************************************************)
Load(f) ==
  /\ loaded' = TRUE
  /\ sequence' = f.sequence
  /\ qualityScores' = f.qualityScores
  /\ peakLocations' = f.peakLocations
  /\ traces' = [lo |-> 0, hi |-> f.traceLength]
  \* a new ChromatogramCanvas is constructed for every load
  /\ selection' = NoSelection
  /\ searchMatches' = <<>>
  /\ currentMatchIndex' = -1
  /\ modifications' = {}
  /\ scrollX' = 0
  /\ xScale' = DefaultXScaleRat
  \* editHistory.clear()
  /\ undoStack' = <<>>
  /\ redoStack' = <<>>
  /\ fitPending' = TRUE
  /\ isDragging' = FALSE
  /\ dragStartBase' = -1
  /\ dragCurrentBase' = -1
  /\ hoveredBase' = -1
  /\ emitted' = <<>>
  /\ call' = NoCall

\* the setTimeout callback of onFileLoaded: chromatogram.fitToView()
FitTimer ==
  /\ fitPending
  /\ fitPending' = FALSE
  /\ xScale' = FitToView(xScale, scrollX, TraceLength(traces))[1]
  /\ scrollX' = FitToView(xScale, scrollX, TraceLength(traces))[2]
  /\ call' = NoCall
  /\ emitted' = <<>>
  /\ UNCHANGED <<loaded, modelVars, viewVars, histVars, dragVars>>

(***************************************************************************)
(* Zoom: ChromatogramCanvas.zoomIn, zoomOut, setZoom and fitToView as the  *)
(* application and its toolbar call them                                   *)
(***************************************************************************)
\* zoomIn(factor = 1.5), zoomOut(factor = 1.5)
ZoomFactor == <<3, 2>>
\* the sample at the horizontal centre of the viewport:
\* (scrollX + clientWidth / 2) / xScale
CenterSample(scroll, scale) == RatDiv(Rat(2 * scroll + ContainerWidth, 2), scale)
\* the scroll offset that keeps the sample at the centre:
\* centerDataX * xScale - clientWidth / 2, as a rational
CenterTarget(scale, oldScale, oldScroll) ==
  Rat((2 * oldScroll + ContainerWidth) * scale[1] * oldScale[2] - ContainerWidth * scale[2] * oldScale[1],
      2 * scale[2] * oldScale[1])
Zoomed(r, op) ==
  /\ loaded
  /\ xScale' = r[1]
  /\ scrollX' = r[2]
  /\ call' = op
  /\ emitted' = <<>>
  /\ UNCHANGED <<loaded, modelVars, viewVars, histVars, fitPending, dragVars>>
\* this.setZoom(this.xScale * factor)
ZoomIn == Zoomed(SetZoom(RatMul(xScale, ZoomFactor), xScale, scrollX, TraceLength(traces)), [op |-> "zoomIn"])
\* this.setZoom(this.xScale / factor)
ZoomOut == Zoomed(SetZoom(RatDiv(xScale, ZoomFactor), xScale, scrollX, TraceLength(traces)), [op |-> "zoomOut"])
\* zoomFit(): this.chromatogram.fitToView()
\* the record says whether the command before it was a fit as well
ZoomFit ==
  Zoomed(FitToView(xScale, scrollX, TraceLength(traces)),
         [op |-> "fitToView", repeated |-> call.op = "fitToView"])
\* setZoom(scale)
SetZoomTo(scale) == Zoomed(SetZoom(scale, xScale, scrollX, TraceLength(traces)), [op |-> "setZoom", scale |-> scale, from |-> <<xScale, scrollX>>])

(***************************************************************************)
(* Base edits: ChangeBaseCommand and EditHistory                           *)
(***************************************************************************)
\* const actualBase = base === '' ? 'N' : base
ActualBase(base) == IF base = "" THEN "N" ELSE base
\* sequence.split(''); sequence[index] = actualBase; sequence.join('')
\* an index past the end leaves holes, which join() renders as ''
SetBaseSequenceInsert(seq, index, actualBase) ==
  IF index >= 0 /\ index < Len(seq) THEN SubSeq(seq, 1, index) \o <<actualBase>> \o SubSeq(seq, index + 1, Len(seq))
  ELSE IF index >= Len(seq) THEN Append(seq, actualBase)
  ELSE seq
SetBaseSequence(seq, index, actualBase) ==
  IF index >= 0 /\ index < Len(seq) THEN [seq EXCEPT ![index + 1] = actualBase]
  ELSE IF index >= Len(seq) THEN Append(seq, actualBase)
  ELSE seq
\* markModified(index) against the already updated sequence
MarkModified(mods, index, seqLen) ==
  IF index >= 0 /\ index < seqLen THEN mods \cup {index} ELSE mods
\* unmarkModified(index)
UnmarkModified(mods, index) == mods \ {index}
\* ChangeBaseCommand._setBase(base): the new <<sequence, modifications>>
SetBase(cmd, base, seq, mods) ==
  LET actualBase == ActualBase(base)
      newSeq == SetBaseSequence(seq, cmd.index, actualBase)
  IN <<newSeq, IF actualBase # cmd.oldBase THEN MarkModified(mods, cmd.index, Len(newSeq)) ELSE UnmarkModified(mods, cmd.index)>>
\* undoStack.push(command); if (undoStack.length > maxSize) undoStack.shift()
PushUnbounded(stack, cmd) == Append(stack, cmd)
PushBounded(stack, cmd) ==
  IF Len(stack) + 1 > MaxSize THEN Tail(Append(stack, cmd)) ELSE Append(stack, cmd)
\* EditHistory.execute: this.redoStack = []
RedoStackKept(stack) == stack
RedoStackAfterExecute(stack) == <<>>
\* ChangeBaseCommand.execute / undo: the base handed to _setBase
ExecuteBase(cmd) == cmd.newBase
UndoBaseSwapped(cmd) == cmd.newBase
UndoBase(cmd) == cmd.oldBase

\* BaseEditor._handleButtonClick -> AB1ReaderApp.onBaseChange -> EditHistory.execute
\* oldBase is the base the popover recorded for the index
EditBase(index, oldBase, newBase) ==
  /\ loaded
  /\ newBase # oldBase
  /\ IF index >= 0 /\ index < Len(sequence) THEN oldBase = sequence[index + 1] ELSE oldBase = StaleBase
  /\ LET cmd == [index |-> index, oldBase |-> oldBase, newBase |-> newBase]
         r == SetBase(cmd, ExecuteBase(cmd), sequence, modifications)
     IN /\ sequence' = r[1]
        /\ modifications' = r[2]
        /\ undoStack' = PushBounded(undoStack, cmd)
        /\ redoStack' = RedoStackAfterExecute(redoStack)
        /\ call' = [op |-> "editBase", redoDropped |-> Len(redoStack), shifted |-> (Len(undoStack) + 1 > MaxSize)]
  /\ emitted' = <<>>
  /\ UNCHANGED <<loaded, qualityScores, peakLocations, traces, selection, searchMatches, currentMatchIndex, scrollX, xScale, fitPending, dragVars>>

\* AB1ReaderApp.undo -> EditHistory.undo
Undo ==
  /\ loaded
  /\ IF Len(undoStack) = 0
     THEN /\ call' = [op |-> "undo", ok |-> FALSE]
          /\ UNCHANGED <<sequence, modifications, histVars>>
     ELSE LET cmd == undoStack[Len(undoStack)]
              r == SetBase(cmd, UndoBase(cmd), sequence, modifications)
          IN /\ sequence' = r[1]
             /\ modifications' = r[2]
             /\ undoStack' = SubSeq(undoStack, 1, Len(undoStack) - 1)
             /\ redoStack' = Append(redoStack, cmd)
             /\ call' = [op |-> "undo", ok |-> TRUE]
  /\ emitted' = <<>>
  /\ UNCHANGED <<loaded, qualityScores, peakLocations, traces, selection, searchMatches, currentMatchIndex, scrollX, xScale, fitPending, dragVars>>

\* a redo of the command undone first
RedoOfOldest ==
  /\ loaded
  /\ IF Len(redoStack) = 0
     THEN /\ call' = [op |-> "redo", ok |-> FALSE]
          /\ UNCHANGED <<sequence, modifications, histVars>>
     ELSE LET cmd == redoStack[1]
              r == SetBase(cmd, ExecuteBase(cmd), sequence, modifications)
          IN /\ sequence' = r[1]
             /\ modifications' = r[2]
             /\ redoStack' = Tail(redoStack)
             /\ undoStack' = Append(undoStack, cmd)
             /\ call' = [op |-> "redo", ok |-> TRUE]
  /\ emitted' = <<>>
  /\ UNCHANGED <<loaded, qualityScores, peakLocations, traces, selection, searchMatches, currentMatchIndex, scrollX, xScale, fitPending, dragVars>>

\* AB1ReaderApp.redo -> EditHistory.redo
Redo ==
  /\ loaded
  /\ IF Len(redoStack) = 0
     THEN /\ call' = [op |-> "redo", ok |-> FALSE]
          /\ UNCHANGED <<sequence, modifications, histVars>>
     ELSE LET cmd == redoStack[Len(redoStack)]
              r == SetBase(cmd, ExecuteBase(cmd), sequence, modifications)
          IN /\ sequence' = r[1]
             /\ modifications' = r[2]
             /\ redoStack' = SubSeq(redoStack, 1, Len(redoStack) - 1)
             /\ undoStack' = Append(undoStack, cmd)
             /\ call' = [op |-> "redo", ok |-> TRUE]
  /\ emitted' = <<>>
  /\ UNCHANGED <<loaded, qualityScores, peakLocations, traces, selection, searchMatches, currentMatchIndex, scrollX, xScale, fitPending, dragVars>>

(***************************************************************************)
(* Destructive trim: ChromatogramCanvas.applyTrim, called by               *)
(* AB1ReaderApp.applyQualityTrim with the trim points                      *)
(***************************************************************************)
\* the guard of applyTrim: an empty sequence, a negative start or an end
\* past the sequence is an 'Invalid trim range'
TrimRejected(trimStart, trimEnd) ==
  Len(sequence) = 0 \/ trimStart < 0 \/ trimEnd >= Len(sequence)
\* [trimStart, trimEnd] = [trimEnd, trimStart] when trimStart > trimEnd
TrimLo(trimStart, trimEnd) == IF trimStart > trimEnd THEN trimEnd ELSE trimStart
TrimHi(trimStart, trimEnd) == IF trimStart > trimEnd THEN trimStart ELSE trimEnd
\* Math.max(0, traceStart - tracePadding)
TraceSliceStart(peaks, lo) == JsMax(0, JsSub(JsIndex(peaks, lo), tracePadding))
\* Math.min(originalTraceLength, traceEnd + tracePadding + 1)
TraceSliceEnd(peaks, hi, traceLen) == JsMin(traceLen, JsAdd(JsAdd(JsIndex(peaks, hi), tracePadding), 1))
\* traces[nucleotide].slice(a, b) on the window of samples a channel holds
SliceTrace(t, a, b) ==
  LET from == SliceIndex(TraceLength(t), a)
      to == SliceIndex(TraceLength(t), b)
  IN IF to <= from THEN [lo |-> 0, hi |-> 0] ELSE [lo |-> t.lo + from, hi |-> t.lo + to]
\* peakLocations.slice(lo, hi + 1).map(pos => pos - traceSliceStart)
RebasePeaksUnshifted(peaks, lo, hi, sliceStart) == JsSlice(peaks, lo, hi + 1)
RebasePeaks(peaks, lo, hi, sliceStart) ==
  LET kept == JsSlice(peaks, lo, hi + 1)
  IN IF Len(kept) = 0 THEN <<>> ELSE [i \in 1 .. Len(kept) |-> JsSub(kept[i], sliceStart)]
\* the trimmed qualityScores (sliced only when there are scores)
TrimQualityExclusive(q, lo, hi) == IF Len(q) > 0 THEN JsSlice(q, lo, hi) ELSE q
TrimQuality(q, lo, hi) == IF Len(q) > 0 THEN JsSlice(q, lo, hi + 1) ELSE q
\* this.selection = { start: -1, end: -1 } of applyTrim
SelectionKept(sel) == sel
SelectionAfterTrim(sel) == NoSelection
\* EditHistory.clear() on a stack
HistoryKept(stack) == stack
HistoryCleared(stack) == <<>>

ApplyTrim(trimStart, trimEnd) ==
  /\ loaded
  /\ IF TrimRejected(trimStart, trimEnd)
     THEN /\ call' = [op |-> "applyTrim", success |-> FALSE]
          /\ UNCHANGED <<modelVars, viewVars, histVars, scrollX, xScale>>
     ELSE LET lo == TrimLo(trimStart, trimEnd)
              hi == TrimHi(trimStart, trimEnd)
              sliceStart == TraceSliceStart(peakLocations, lo)
              sliceEnd == TraceSliceEnd(peakLocations, hi, TraceLength(traces))
              newTraces == SliceTrace(traces, sliceStart, sliceEnd)
              \* applyTrim resets the scroll position; applyQualityTrim then fits the view
              fit == FitToView(xScale, 0, TraceLength(newTraces))
          IN /\ sequence' = JsSubstring(sequence, lo, hi + 1)
             /\ qualityScores' = TrimQuality(qualityScores, lo, hi)
             /\ traces' = newTraces
             /\ peakLocations' = RebasePeaks(peakLocations, lo, hi, sliceStart)
             /\ selection' = SelectionAfterTrim(selection)
             /\ searchMatches' = <<>>
             /\ currentMatchIndex' = -1
             /\ modifications' = {}
             \* editHistory.clear()
             /\ undoStack' = HistoryCleared(undoStack)
             /\ redoStack' = HistoryCleared(redoStack)
             /\ xScale' = fit[1]
             /\ scrollX' = fit[2]
             /\ call' = [op |-> "applyTrim", success |-> TRUE]
  /\ emitted' = <<>>
  /\ UNCHANGED <<loaded, fitPending, dragVars>>

(***************************************************************************)
(* Raw traces: the abif_get_raw_traces request of onFileLoaded, its        *)
(* response in handleMainResponse, and the slices of applyTrim             *)
(***************************************************************************)
\* onFileLoaded: a new ChromatogramCanvas (rawTraces = null) and a request for
\* the raw traces of the file
LoadFile(f) ==
  /\ Load(f)
  /\ raw' = [NoRaw EXCEPT !.requests = raw.requests \cup {f}, !.current = f]
\* case 'abif_get_raw_traces': the response to one of the requests in flight,
\* which the main process answers after reading the file again
RawTracesResponse(f) ==
  /\ f \in raw.requests
  /\ loaded
  /\ raw' = [raw EXCEPT !.requests = @ \ {f}, !.installed = TRUE, !.file = f,
                        !.lo = 0, !.hi = f.traceLength]
  /\ call' = [op |-> "rawTracesResponse"]
  /\ UNCHANGED appVars
\* applyTrim: rawTraces[nucleotide].slice(traceSliceStart, traceSliceEnd)
TrimFile(trimStart, trimEnd) ==
  /\ ApplyTrim(trimStart, trimEnd)
  /\ raw' = IF TrimRejected(trimStart, trimEnd) \/ ~raw.installed THEN raw
            ELSE LET lo == TrimLo(trimStart, trimEnd)
                     hi == TrimHi(trimStart, trimEnd)
                     held == SliceTrace([lo |-> raw.lo, hi |-> raw.hi],
                                        TraceSliceStart(peakLocations, lo),
                                        TraceSliceEnd(peakLocations, hi, TraceLength(traces)))
                 IN [raw EXCEPT !.lo = held.lo, !.hi = held.hi]

(***************************************************************************)
(* Selection and search: ChromatogramCanvas.setSelection / search          *)
(***************************************************************************)
\* getSelectedSequence() for a selection
GetSelectedSequence(sel, seq) ==
  IF sel.start < 0 THEN <<>> ELSE JsSubstring(seq, Min(sel.start, sel.end), Max(sel.start, sel.end) + 1)
\* the arguments onSelectionChange is called with
SelectionChange(sel, seq) ==
  [type |-> "selectionChange", start |-> sel.start, end |-> sel.end, sequence |-> GetSelectedSequence(sel, seq)]

SetSelection(start, end) ==
  /\ loaded
  /\ selection' = [start |-> Min(start, end), end |-> Max(start, end)]
  /\ emitted' = <<SelectionChange(selection', sequence)>>
  /\ call' = NoCall
  /\ UNCHANGED <<loaded, modelVars, searchMatches, currentMatchIndex, modifications, scrollX, xScale, histVars, fitPending, dragVars>>

\* String.prototype.toUpperCase on the letters of the model: one character
\* becomes one or, for the sharp s, two characters
UpperChar(c) ==
  IF c = "a" THEN <<"A">> ELSE IF c = "g" THEN <<"G">> ELSE IF c = "n" THEN <<"N">>
  ELSE IF c = "s" THEN <<"S">> ELSE IF c = "ß" THEN <<"S", "S">> ELSE <<c>>
RECURSIVE ToUpperCase(_)
ToUpperCase(s) == IF Len(s) = 0 THEN <<>> ELSE UpperChar(Head(s)) \o ToUpperCase(Tail(s))
\* upperSequence.indexOf(upperPattern, startIndex): -1 when there is none
RECURSIVE IndexOf(_, _, _)
IndexOf(s, pat, from) ==
  IF from + Len(pat) > Len(s) THEN -1
  ELSE IF SubSeq(s, from + 1, from + Len(pat)) = pat THEN from
  ELSE IndexOf(s, pat, from + 1)
\* the while (true) loop of search(): every match found from startIndex on
RECURSIVE FindMatches(_, _, _, _)
FindMatches(upperSequence, upperPattern, patternLength, startIndex) ==
  LET index == IndexOf(upperSequence, upperPattern, startIndex)
  IN IF index = -1 THEN <<>>
     ELSE <<[start |-> index, end |-> index + patternLength - 1]>> \o FindMatches(upperSequence, upperPattern, patternLength, index + 1)
\* scrollToBase(baseIndex): the new scroll offset
ScrollToBase(baseIndex, peaks, scale, scroll, traceLen) ==
  IF baseIndex < 0 \/ baseIndex >= Len(peaks) THEN scroll
  ELSE IF peaks[baseIndex + 1] = NaN THEN ScrollTo(NaN, traceLen, scale)
  ELSE ScrollTo(RatFloor(Rat(2 * peaks[baseIndex + 1] * scale[1] - ContainerWidth * scale[2], 2 * scale[2])), traceLen, scale)

Search(pattern) ==
  /\ loaded
  /\ LET found == IF Len(pattern) = 0 \/ Len(sequence) = 0 THEN <<>>
                  ELSE FindMatches(ToUpperCase(sequence), ToUpperCase(pattern), Len(pattern), 0)
     IN /\ searchMatches' = found
        /\ currentMatchIndex' = IF Len(found) > 0 THEN 0 ELSE -1
        /\ scrollX' = IF Len(found) > 0 THEN ScrollToBase(found[1].start, peakLocations, xScale, scrollX, TraceLength(traces)) ELSE scrollX
        /\ call' = [op |-> "search", pattern |-> pattern, result |-> Len(found)]
  /\ emitted' = <<>>
  /\ UNCHANGED <<loaded, modelVars, selection, modifications, xScale, histVars, fitPending, dragVars>>

Patterns == {<<"g">>, <<>>}

\* scrollToBase(match.start) of nextMatch / previousMatch
ScrollToMatch(index) ==
  ScrollToBase(searchMatches[index + 1].start, peakLocations, xScale, scrollX, TraceLength(traces))
\* the index nextMatch / previousMatch make current, of n matches
NextIndexStuck(current, n) == current
NextIndex(current, n) == (current + 1) % n
PreviousIndex(current, n) == IF current <= 0 THEN n - 1 ELSE current - 1
\* the object nextMatch / previousMatch return
MatchInfo(index) ==
  [matchIndex |-> index, totalMatches |-> Len(searchMatches),
   start |-> searchMatches[index + 1].start, end |-> searchMatches[index + 1].end]

NextMatch ==
  /\ loaded
  /\ IF Len(searchMatches) = 0
     THEN /\ call' = [op |-> "nextMatch", before |-> currentMatchIndex, result |-> "null"]
          /\ UNCHANGED <<currentMatchIndex, scrollX>>
     ELSE /\ currentMatchIndex' = NextIndex(currentMatchIndex, Len(searchMatches))
          /\ scrollX' = ScrollToMatch(currentMatchIndex')
          /\ call' = [op |-> "nextMatch", before |-> currentMatchIndex, result |-> MatchInfo(currentMatchIndex')]
  /\ emitted' = <<>>
  /\ UNCHANGED <<loaded, modelVars, selection, searchMatches, modifications, xScale, histVars, fitPending, dragVars>>

PreviousMatch ==
  /\ loaded
  /\ IF Len(searchMatches) = 0
     THEN /\ call' = [op |-> "previousMatch", before |-> currentMatchIndex, result |-> "null"]
          /\ UNCHANGED <<currentMatchIndex, scrollX>>
     ELSE /\ currentMatchIndex' = PreviousIndex(currentMatchIndex, Len(searchMatches))
          /\ scrollX' = ScrollToMatch(currentMatchIndex')
          /\ call' = [op |-> "previousMatch", before |-> currentMatchIndex, result |-> MatchInfo(currentMatchIndex')]
  /\ emitted' = <<>>
  /\ UNCHANGED <<loaded, modelVars, selection, searchMatches, modifications, xScale, histVars, fitPending, dragVars>>

ClearSearch ==
  /\ loaded
  /\ searchMatches' = <<>>
  /\ currentMatchIndex' = -1
  /\ emitted' = <<>>
  /\ call' = NoCall
  /\ UNCHANGED <<loaded, modelVars, selection, modifications, scrollX, xScale, histVars, fitPending, dragVars>>

(***************************************************************************)
(* Pointer events: ChromatogramCanvas._onMouseDown / _onMouseMove /        *)
(* _onMouseUp                                                              *)
(***************************************************************************)
\* 20 / this.xScale and 100 / this.xScale of _findNearestBase
HoverThreshold == 20
DragThreshold == 100
\* edgeThreshold and scrollSpeed of _autoScrollDuringDrag
edgeThreshold == 50
scrollSpeed == 10

\* Math.abs(peakLocations[i] - x / xScale), multiplied by the numerator of xScale
PeakDistance(peaks, i, x, scale) == Abs(peaks[i] * scale[1] - x * scale[2])
\* a lookup with the thresholds of hover and drag exchanged
FindNearestBaseTightDrag(x, peaks, scale, dragging) ==
  LET candidates == {i \in 1 .. Len(peaks) : peaks[i] # NaN}
      threshold == IF dragging THEN HoverThreshold ELSE DragThreshold
  IN IF candidates = {} THEN -1
     ELSE LET nearest == CHOOSE i \in candidates : \A j \in candidates :
                           \/ PeakDistance(peaks, i, x, scale) < PeakDistance(peaks, j, x, scale)
                           \/ PeakDistance(peaks, i, x, scale) = PeakDistance(peaks, j, x, scale) /\ i <= j
          IN IF PeakDistance(peaks, nearest, x, scale) <= threshold * scale[2] THEN nearest - 1 ELSE -1
\* _findNearestBase(x): the first base at the least distance, or -1 when
\* there is no peak or the least distance exceeds the threshold
FindNearestBase(x, peaks, scale, dragging) ==
  LET candidates == {i \in 1 .. Len(peaks) : peaks[i] # NaN}
      threshold == IF dragging THEN DragThreshold ELSE HoverThreshold
  IN IF candidates = {} THEN -1
     ELSE LET nearest == CHOOSE i \in candidates : \A j \in candidates :
                           \/ PeakDistance(peaks, i, x, scale) < PeakDistance(peaks, j, x, scale)
                           \/ PeakDistance(peaks, i, x, scale) = PeakDistance(peaks, j, x, scale) /\ i <= j
          IN IF PeakDistance(peaks, nearest, x, scale) <= threshold * scale[2] THEN nearest - 1 ELSE -1
\* _autoScrollDuringDrag(clientX, rect): the new scroll offset
AutoScrollDuringDrag(relativeX, scroll, traceLen, scale) ==
  IF relativeX < edgeThreshold THEN ScrollTo(scroll - scrollSpeed, traceLen, scale)
  ELSE IF relativeX > CanvasWidth(traceLen, scale) - edgeThreshold THEN ScrollTo(scroll + scrollSpeed, traceLen, scale)
  ELSE scroll
\* the pointer is over the part of the canvas the wrapper shows
PointerOnCanvas(relativeX) ==
  /\ relativeX >= scrollX
  /\ relativeX < scrollX + ContainerWidth
  /\ relativeX < CanvasWidth(TraceLength(traces), xScale)
BaseClick(index) == [type |-> "baseClick", index |-> index]
BaseHover(index) == [type |-> "baseHover", index |-> index]

\* relativeX is e.clientX - rect.left; the handlers add wrapper.scrollLeft
\* a mousedown that leaves the selection on display
MouseDownKeepsSelection(relativeX) ==
  /\ loaded
  /\ PointerOnCanvas(relativeX)
  /\ LET baseIndex == FindNearestBase(relativeX + scrollX, peakLocations, xScale, isDragging)
     IN IF baseIndex >= 0
        THEN /\ isDragging' = TRUE
             /\ dragStartBase' = baseIndex
             /\ dragCurrentBase' = baseIndex
        ELSE UNCHANGED <<isDragging, dragStartBase, dragCurrentBase>>
  /\ emitted' = <<>>
  /\ call' = [op |-> "mouseDown"]
  /\ UNCHANGED <<loaded, modelVars, viewVars, scrollX, xScale, histVars, fitPending, hoveredBase>>

MouseDown(relativeX) ==
  /\ loaded
  /\ PointerOnCanvas(relativeX)
  /\ LET baseIndex == FindNearestBase(relativeX + scrollX, peakLocations, xScale, isDragging)
     IN IF baseIndex >= 0
        THEN /\ isDragging' = TRUE
             /\ dragStartBase' = baseIndex
             /\ dragCurrentBase' = baseIndex
             /\ selection' = NoSelection
        ELSE UNCHANGED <<isDragging, dragStartBase, dragCurrentBase, selection>>
  /\ emitted' = <<>>
  /\ call' = [op |-> "mouseDown"]
  /\ UNCHANGED <<loaded, modelVars, searchMatches, currentMatchIndex, modifications, scrollX, xScale, histVars, fitPending, hoveredBase>>

MouseMove(relativeX) ==
  /\ loaded
  /\ PointerOnCanvas(relativeX)
  /\ LET baseIndex == FindNearestBase(relativeX + scrollX, peakLocations, xScale, isDragging)
     IN IF isDragging
        THEN /\ dragCurrentBase' = IF baseIndex # dragCurrentBase /\ baseIndex >= 0 THEN baseIndex ELSE dragCurrentBase
             /\ scrollX' = AutoScrollDuringDrag(relativeX, scrollX, TraceLength(traces), xScale)
             /\ emitted' = <<>>
             /\ UNCHANGED hoveredBase
        ELSE /\ hoveredBase' = baseIndex
             /\ emitted' = IF baseIndex # hoveredBase THEN <<BaseHover(baseIndex)>> ELSE <<>>
             /\ UNCHANGED <<dragCurrentBase, scrollX>>
  /\ call' = [op |-> "mouseMove"]
  /\ UNCHANGED <<loaded, modelVars, viewVars, xScale, histVars, fitPending, isDragging, dragStartBase>>

\* if (this.dragStartBase !== this.dragCurrentBase) of _onMouseUp
DragAlwaysMoved(startBase, currentBase) == TRUE
DragMoved(startBase, currentBase) == startBase # currentBase
\* the selection _onMouseUp commits
DragSelectionUnordered(startBase, currentBase) == [start |-> startBase, end |-> currentBase]
DragSelection(startBase, currentBase) ==
  [start |-> Min(startBase, currentBase), end |-> Max(startBase, currentBase)]

MouseUp(relativeX) ==
  /\ loaded
  /\ PointerOnCanvas(relativeX)
  /\ IF ~isDragging
     THEN LET baseIndex == FindNearestBase(relativeX + scrollX, peakLocations, xScale, isDragging)
          IN /\ emitted' = IF baseIndex >= 0 THEN <<BaseClick(baseIndex)>> ELSE <<>>
             /\ UNCHANGED <<selection, dragVars>>
     ELSE /\ IF DragMoved(dragStartBase, dragCurrentBase)
             THEN /\ selection' = DragSelection(dragStartBase, dragCurrentBase)
                  /\ emitted' = <<SelectionChange(selection', sequence)>>
             ELSE /\ emitted' = <<BaseClick(dragStartBase)>>
                  /\ UNCHANGED selection
          /\ isDragging' = FALSE
          /\ dragStartBase' = -1
          /\ dragCurrentBase' = -1
          /\ UNCHANGED hoveredBase
  /\ call' = [op |-> "mouseUp", wasDragging |-> isDragging, from |-> dragStartBase, to |-> dragCurrentBase]
  /\ UNCHANGED <<loaded, modelVars, searchMatches, currentMatchIndex, modifications, scrollX, xScale, histVars, fitPending>>

\* the user scrolls the wrapper: _onScroll copies wrapper.scrollLeft
Scroll(scrollLeft) ==
  /\ loaded
  /\ scrollX' = ScrollTo(scrollLeft, TraceLength(traces), xScale)
  /\ scrollX' # scrollX
  /\ emitted' = <<>>
  /\ call' = NoCall
  /\ UNCHANGED <<loaded, modelVars, viewVars, xScale, histVars, fitPending, dragVars>>

(***************************************************************************)
(* Pointer events with the place of the pointer in the visible part of     *)
(* the canvas: the pointer stays there until its next event                *)
(***************************************************************************)
PointerDown(relativeX) == MouseDown(relativeX) /\ pointer' = relativeX - scrollX
PointerMove(relativeX) == MouseMove(relativeX) /\ pointer' = relativeX - scrollX
PointerUp(relativeX) == MouseUp(relativeX) /\ pointer' = relativeX - scrollX
\* _autoScrollDuringDrag would scroll for the pointer where it is
InEdgeZone ==
  /\ isDragging
  /\ pointer >= 0
  /\ AutoScrollDuringDrag(pointer + scrollX, scrollX, TraceLength(traces), xScale) # scrollX

(***************************************************************************)
(* QualityTrimmer.calculateStatistics                                      *)
(***************************************************************************)
\* the argument end when it is left out (null)
NullEnd == NaN - 1
ZeroStatistics == [min |-> 0, max |-> 0, mean |-> <<0, 1>>, median |-> <<0, 1>>, length |-> 0]
\* [...scores].sort((a, b) => a - b)
RECURSIVE InsertSorted(_, _)
InsertSorted(sorted, x) ==
  IF sorted = <<>> THEN <<x>>
  ELSE IF x < Head(sorted) THEN <<x>> \o sorted
  ELSE <<Head(sorted)>> \o InsertSorted(Tail(sorted), x)
RECURSIVE SortAscending(_)
SortAscending(scores) ==
  IF scores = <<>> THEN <<>>
  ELSE InsertSorted(SortAscending(SubSeq(scores, 1, Len(scores) - 1)), scores[Len(scores)])
\* scores.reduce((a, b) => a + b, 0)
RECURSIVE Sum(_)
Sum(scores) == IF scores = <<>> THEN 0 ELSE Head(scores) + Sum(Tail(scores))
\* the mean and the median are kept as fractions in lowest terms
CalculateStatistics(scores, start, end) ==
  IF Len(scores) = 0 THEN ZeroStatistics
  ELSE LET endIdx == IF end # NullEnd THEN Min(end, Len(scores) - 1) ELSE Len(scores) - 1
           range == JsSlice(scores, start, endIdx + 1)
           sorted == SortAscending(range)
           n == Len(range)
       IN IF n = 0 THEN ZeroStatistics
          ELSE [min |-> sorted[1], max |-> sorted[n], mean |-> Rat(Sum(range), n),
                median |-> IF n % 2 = 0 THEN Rat(sorted[n \div 2] + sorted[(n \div 2) + 1], 2)
                           ELSE Rat(sorted[(n \div 2) + 1], 1),
                length |-> n]

(***************************************************************************)
(* QualityTrimmer.findTrimPoints                                           *)
(***************************************************************************)
DefaultUpperThreshold == 24
DefaultLowerThreshold == 15
\* the scores of a window on each side of its centre, and the shortest array
\* that has a centred window
WindowArm == 5
MinWindowLength == 11
\* QualityTrimmer._centeredWindowAverage for a 0-based centre: sum / 10
\* a window average that counts the centre as well
CenteredWindowAverageWithCenter(scores, centerIndex) ==
  Rat(Sum(SubSeq(scores, centerIndex - 4, centerIndex + 6)), 2 * WindowArm)
CenteredWindowAverage(scores, centerIndex) ==
  Rat(Sum(SubSeq(scores, centerIndex - 4, centerIndex))
        + Sum(SubSeq(scores, centerIndex + 2, centerIndex + 6)), 2 * WindowArm)
\* the loop of findTrimPoints from position i on
RECURSIVE ScanTrimPoints(_, _, _, _, _, _)
ScanTrimPoints(scores, upper, lower, i, trimStart, lastGoodPosition) ==
  IF i > Len(scores) - 6
  THEN [trimStart |-> trimStart, lastGoodPosition |-> lastGoodPosition,
        trimEnd |-> Len(scores) - 6, foundFallOff |-> FALSE]
  ELSE LET windowAvg == CenteredWindowAverage(scores, i)
           good == ~RatLess(windowAvg, <<upper, 1>>)
           start == IF good /\ trimStart = -1 THEN i ELSE trimStart
           last == IF good THEN i ELSE lastGoodPosition
       IN IF start # -1 /\ RatLess(windowAvg, <<lower, 1>>)
          THEN [trimStart |-> start, lastGoodPosition |-> last,
                trimEnd |-> last, foundFallOff |-> TRUE]
          ELSE ScanTrimPoints(scores, upper, lower, i + 1, start, last)
\* trimEnd when the scan ended without a fall-off
TrimEndAtScanEnd(lastGoodPosition, length) == length - 6
TrimEndWithoutFallOff(lastGoodPosition, length) ==
  IF lastGoodPosition # -1 THEN lastGoodPosition ELSE length - 6
\* the range returned for no scores and for fewer scores than a window
TrimPointsOfShort(length) ==
  IF length = 0 THEN [trimStart |-> 0, trimEnd |-> 0]
  ELSE [trimStart |-> 0, trimEnd |-> length - 1]
\* a scan that found no good position, returned as it ended
TrimPointsUnchecked(scan) == [trimStart |-> scan.trimStart, trimEnd |-> scan.trimEnd]
\* the minimal range returned when no window average reached upperThreshold
TrimPointsOfNoGood(scan) == [trimStart |-> WindowArm, trimEnd |-> WindowArm]
FindTrimPoints(scores, upper, lower) ==
  IF Len(scores) < MinWindowLength THEN TrimPointsOfShort(Len(scores))
  ELSE LET scan == ScanTrimPoints(scores, upper, lower, WindowArm, -1, -1)
       IN IF scan.trimStart = -1 THEN TrimPointsOfNoGood(scan)
          ELSE IF ~scan.foundFallOff
          THEN [trimStart |-> scan.trimStart,
                trimEnd |-> TrimEndWithoutFallOff(scan.lastGoodPosition, Len(scores))]
          ELSE [trimStart |-> scan.trimStart, trimEnd |-> scan.trimEnd]
\* AB1ReaderApp.applyQualityTrim with the thresholds of the dialog: the trim
\* points of the scores, applied by applyTrim
ApplyQualityTrim(upper, lower) ==
  LET trimPoints == FindTrimPoints(qualityScores, upper, lower)
  IN ApplyTrim(trimPoints.trimStart, trimPoints.trimEnd)
\* AB1ReaderApp.previewQualityTrim with the thresholds of the dialog
PreviewQualityTrim(upper, lower) ==
  LET trimPoints == FindTrimPoints(qualityScores, upper, lower)
  IN /\ loaded
     /\ call' = [op |-> "previewQualityTrim", upper |-> upper, lower |-> lower,
                 trimPoints |-> trimPoints,
                 stats |-> CalculateStatistics(qualityScores, trimPoints.trimStart,
                                               trimPoints.trimEnd)]
     /\ UNCHANGED <<appVars>>

(***************************************************************************)
(* ABIFParser: the binary directory decoder of the main process.  A buffer *)
(* is a sequence of bytes, a JavaScript string the record of its character *)
(* codes, and an exception the record of its kind.                         *)
(***************************************************************************)
RangeError == [thrown |-> "RangeError"]
FormatError == [thrown |-> "Invalid ABIF file"]
IsThrown(v) == v \in {RangeError, FormatError}
\* JavaScript values: null, a string (its character codes), an array, and a
\* value that is not an array
Null == [null |-> TRUE]
JsString(codes) == [str |-> codes]
JsArray(elements) == [array |-> elements]
JsScalar(value) == [scalar |-> value]
\* the character codes of "ABIF"
AbifMagic == <<65, 66, 73, 70>>
\* the bytes the header fields occupy (the last field read ends at byte 34)
HeaderBytes == 34
\* the bytes of one directory entry that _parseDirectoryEntry reads
EntryBytes == 28

\* DataView.getUint8 / getUint16 / getUint32 (big-endian) at a 0-based offset
\* that lies inside the view.  The integers of the checker are 32 bits wide
\* and signed, so an unsigned 32-bit value is kept as its two 16-bit halves.
GetUint8(view, offset) == view[offset + 1]
GetUint16(view, offset) == view[offset + 1] * 256 + view[offset + 2]
GetUint32(view, offset) == [hi |-> GetUint16(view, offset), lo |-> GetUint16(view, offset + 2)]
\* An unsigned 32-bit value used as an offset, a size or a count: every value
\* from BeyondBuffer on stands for one that is past the end of every buffer
\* read here, which are shorter than BeyondBuffer bytes
BeyondBuffer == 4096
Uint32Value(v) == IF v.hi > 0 \/ v.lo >= BeyondBuffer THEN BeyondBuffer ELSE v.lo
\* ABIFTypes.readString4
ReadString4(view, offset) == SubSeq(view, offset + 1, offset + 4)
\* inlineView.setUint32(0, dataoffset, false)
Uint32Bytes(v) == <<v.hi \div 256, v.hi % 256, v.lo \div 256, v.lo % 256>>

\* ABIFTypes.toSignedShort / toSignedLong
ToSignedShort(value) == IF value >= 32768 THEN value - 65536 ELSE value
ToSignedLong(value) ==
  IF value.hi >= 32768 THEN (value.hi - 65536) * 65536 + value.lo
  ELSE value.hi * 65536 + value.lo

\* ABIFParser._parseHeader
ParseHeader(buffer) ==
  [filetype |-> ReadString4(buffer, 0), version |-> GetUint16(buffer, 4),
   elementsize |-> GetUint16(buffer, 16),
   numelements |-> Uint32Value(GetUint32(buffer, 18)),
   dataoffset |-> Uint32Value(GetUint32(buffer, 26))]
\* ABIFParser._parseDirectoryEntry
ParseDirectoryEntry(buffer, offset) ==
  [name |-> ReadString4(buffer, offset),
   number |-> Uint32Value(GetUint32(buffer, offset + 4)),
   elementtype |-> GetUint16(buffer, offset + 8), elementsize |-> GetUint16(buffer, offset + 10),
   numelements |-> Uint32Value(GetUint32(buffer, offset + 12)),
   datasize |-> Uint32Value(GetUint32(buffer, offset + 16)),
   dataoffset |-> GetUint32(buffer, offset + 20)]
\* ABIFParser._parseDirectory: the entries, or RangeError when one of them
\* reaches past the end of the buffer
ParseDirectory(buffer, header) ==
  LET entryOffset(i) == header.dataoffset + (i - 1) * header.elementsize
  IN IF header.numelements > 0 /\ entryOffset(header.numelements) + EntryBytes > Len(buffer)
     THEN RangeError
     ELSE [i \in 1 .. header.numelements |-> ParseDirectoryEntry(buffer, entryOffset(i))]
\* new ABIFParser(buffer)
NewParser(buffer) == [NoParser EXCEPT !.buffer = buffer]
\* ABIFParser.parse on a parser that is not parsed: the exception thrown, or
\* "none", and the parser afterwards
Parse(p) ==
  IF Len(p.buffer) < HeaderBytes THEN [thrown |-> RangeError.thrown, parser |-> p]
  ELSE LET header == ParseHeader(p.buffer)
           withHeader == [p EXCEPT !.header = header]
       IN IF header.filetype # AbifMagic THEN [thrown |-> FormatError.thrown, parser |-> withHeader]
          ELSE LET directory == ParseDirectory(p.buffer, header)
               IN IF directory = RangeError THEN [thrown |-> RangeError.thrown, parser |-> withHeader]
                  ELSE [thrown |-> "none",
                        parser |-> [withHeader EXCEPT !.directory = directory, !.parsed = TRUE]]

\* ABIFParser.findEntry: the position in the directory of the first entry with
\* the name and number, or 0 for null
FindEntry(p, name, number) ==
  LET hits == {i \in 1 .. Len(p.directory) :
                 p.directory[i].name = name /\ p.directory[i].number = number}
  IN IF hits = {} THEN 0 ELSE CHOOSE i \in hits : \A j \in hits : i <= j

\* ABIF_TYPE_CODES and the width in bytes of one element of the array types
TypeByte == 1
TypeChar == 2
TypeWord == 3
TypeShort == 4
TypeLong == 5
TypeFloat == 7
TypeDouble == 8
TypeDate == 10
TypeTime == 11
TypePString == 18
TypeCString == 19
ArrayTypes == {TypeByte, TypeChar, TypeWord, TypeShort, TypeLong, TypeFloat, TypeDouble}
ElementWidth(type) ==
  CASE type \in {TypeByte, TypeChar} -> 1
    [] type \in {TypeWord, TypeShort} -> 2
    [] type \in {TypeLong, TypeFloat} -> 4
    [] type = TypeDouble -> 8

\* An IEEE-754 value is kept as the bits getFloat32 / getFloat64 read
Float32(bits) == [float32 |-> bits]
Float64(high, low) == [float64 |-> <<high, low>>]
\* one element of ABIFTypes.readByteArray .. readDoubleArray at a 0-based offset
ReadElement(view, offset, type) ==
  CASE type \in {TypeByte, TypeChar} -> GetUint8(view, offset)
    [] type = TypeWord -> GetUint16(view, offset)
    [] type = TypeShort -> ToSignedShort(GetUint16(view, offset))
    [] type = TypeLong -> ToSignedLong(GetUint32(view, offset))
    [] type = TypeFloat -> Float32(GetUint32(view, offset))
    [] type = TypeDouble -> Float64(GetUint32(view, offset), GetUint32(view, offset + 4))
\* ABIFParser._extractTypedArray: the array, or its only element when count is 1
ExtractTypedArray(view, offset, count, type) ==
  IF count > 0 /\ offset + count * ElementWidth(type) > Len(view) THEN RangeError
  ELSE LET result == [i \in 1 .. count |->
                        ReadElement(view, offset + (i - 1) * ElementWidth(type), type)]
       IN IF count = 1 THEN JsScalar(result[1]) ELSE JsArray(result)
\* ABIFTypes.readDate / readTime
ReadDate(view, offset) ==
  IF offset + 4 > Len(view) THEN RangeError
  ELSE [year |-> GetUint16(view, offset), month |-> GetUint8(view, offset + 2),
        day |-> GetUint8(view, offset + 3)]
ReadTime(view, offset) ==
  IF offset + 4 > Len(view) THEN RangeError
  ELSE [hour |-> GetUint8(view, offset), minute |-> GetUint8(view, offset + 1),
        second |-> GetUint8(view, offset + 2), hsecond |-> GetUint8(view, offset + 3)]
\* ABIFTypes.readPString: a length byte, then at most maxLength - 1 characters
ReadPString(view, offset, maxLength) ==
  IF maxLength < 1 THEN JsString(<<>>)
  ELSE IF offset + 1 > Len(view) THEN RangeError
  ELSE LET actualLength == Min(GetUint8(view, offset), maxLength - 1)
       IN IF offset + 1 + actualLength > Len(view) THEN RangeError
          ELSE JsString(SubSeq(view, offset + 2, offset + 1 + actualLength))
\* ABIFTypes.readCString: the characters before the first zero byte, at most
\* maxLength of them
ReadCString(view, offset, maxLength) ==
  LET stops == {i \in 0 .. maxLength - 1 :
                  offset + i + 1 > Len(view) \/ view[offset + i + 1] = 0}
      stop == IF stops = {} THEN maxLength ELSE CHOOSE i \in stops : \A j \in stops : i <= j
  IN IF stop < maxLength /\ offset + stop + 1 > Len(view) THEN RangeError
     ELSE JsString(SubSeq(view, offset + 1, offset + stop))
\* Number.toString(16).padStart(2, '0') of one byte
HexDigits == <<"0", "1", "2", "3", "4", "5", "6", "7", "8", "9", "a", "b", "c", "d", "e", "f">>
HexByteUnpadded(byte) ==
  IF byte < 16 THEN <<HexDigits[byte + 1]>>
  ELSE <<HexDigits[(byte \div 16) + 1], HexDigits[(byte % 16) + 1]>>
HexByte(byte) == <<HexDigits[(byte \div 16) + 1], HexDigits[(byte % 16) + 1]>>
RECURSIVE HexOf(_)
HexOf(bytes) == IF bytes = <<>> THEN <<>> ELSE HexByte(Head(bytes)) \o HexOf(Tail(bytes))
\* ABIFParser._extractRawBytes
ExtractRawBytes(view, offset, length) ==
  IF length > 0 /\ offset + length > Len(view) THEN RangeError
  ELSE JsString(HexOf(SubSeq(view, offset + 1, offset + length)))
\* ABIFParser._extractData: the value of an entry, or the exception thrown;
\* data of at most four bytes are the bytes of the dataoffset field
IsKnownType(type) == type \in ArrayTypes \cup {TypeDate, TypeTime, TypePString, TypeCString}
\* switch (elementtype): the value of the entry read in view from offset on
DecodeAt(view, offset, entry) ==
  CASE entry.elementtype \in ArrayTypes ->
         ExtractTypedArray(view, offset, entry.numelements, entry.elementtype)
    [] entry.elementtype = TypeDate -> ReadDate(view, offset)
    [] entry.elementtype = TypeTime -> ReadTime(view, offset)
    [] entry.elementtype = TypePString -> ReadPString(view, offset, entry.datasize)
    [] entry.elementtype = TypeCString -> ReadCString(view, offset, entry.datasize)
    [] OTHER -> ExtractRawBytes(view, offset, entry.datasize)
\* an extraction that reads every entry in the file at its dataoffset
ExtractDataFromFile(p, entry) == DecodeAt(p.buffer, Uint32Value(entry.dataoffset), entry)
ExtractData(p, entry) ==
  LET inline == entry.datasize <= 4
      view == IF inline THEN Uint32Bytes(entry.dataoffset) ELSE p.buffer
      offset == IF inline THEN 0 ELSE Uint32Value(entry.dataoffset)
  IN DecodeAt(view, offset, entry)
\* ABIFParser.getTagKey
GetTagKey(name, number) == <<name, number>>
\* a cache that holds no key
IsCachedNever(p, key) == FALSE
\* the cache this.tags: the set of its [key, data] properties
IsCached(p, key) == \E t \in p.tags : t.key = key
Cached(p, key) == (CHOOSE t \in p.tags : t.key = key).data
\* ABIFParser.getTagData: the value returned or the exception thrown, and the
\* parser afterwards (decoded counts the calls of _extractData)
GetTagDataOf(p, name, number) ==
  LET key == GetTagKey(name, number)
      found == FindEntry(p, name, number)
      entry == p.directory[found]
  IN IF IsCached(p, key) THEN [result |-> Cached(p, key), parser |-> p]
     ELSE IF found = 0 THEN [result |-> Null, parser |-> p]
     ELSE LET data == ExtractData(p, entry)
              warned == [p EXCEPT !.decoded = @ + 1,
                                  !.warnings = IF IsKnownType(entry.elementtype) THEN @ ELSE @ + 1]
          IN IF IsThrown(data) THEN [result |-> data, parser |-> warned]
             ELSE [result |-> data,
                   parser |-> [warned EXCEPT !.tags = @ \cup {[key |-> key, data |-> data]}]]

\* ABIFParser.getAllData from entry i of the directory on: every entry that
\* is not cached is extracted and cached, until an extraction throws
RECURSIVE GetAllDataOf(_, _)
GetAllDataOf(p, i) ==
  IF i > Len(p.directory) THEN [thrown |-> "none", parser |-> p]
  ELSE LET entry == p.directory[i]
           key == GetTagKey(entry.name, entry.number)
       IN IF IsCached(p, key) THEN GetAllDataOf(p, i + 1)
          ELSE LET data == ExtractData(p, entry)
                   warned == [p EXCEPT !.decoded = @ + 1,
                                       !.warnings = IF IsKnownType(entry.elementtype) THEN @ ELSE @ + 1]
               IN IF IsThrown(data) THEN [thrown |-> data.thrown, parser |-> warned]
                  ELSE GetAllDataOf([warned EXCEPT !.tags = @ \cup {[key |-> key, data |-> data]}], i + 1)

\* the character codes of the tag names the accessors read
TagPBAS == <<80, 66, 65, 83>>
TagDATA == <<68, 65, 84, 65>>
TagFWO == <<70, 87, 79, 95>>
TagPLOC == <<80, 76, 79, 67>>
TagPCON == <<80, 67, 79, 78>>
TagSMPL == <<83, 77, 80, 76>>
TagCMNT == <<67, 77, 78, 84>>
TagRunN == <<82, 117, 110, 78>>
TagRUND == <<82, 85, 78, 68>>
TagRUNT == <<82, 85, 78, 84>>
TagMCHN == <<77, 67, 72, 78>>
TagMODL == <<77, 79, 68, 76>>
TagLANE == <<76, 65, 78, 69>>
TagTUBE == <<84, 85, 66, 69>>
TagSPAC == <<83, 80, 65, 67>>
TagDySN == <<68, 121, 83, 78>>
\* the character codes of 'G', 'A', 'T', 'C'
DefaultChannelOrderAlphabetical == <<65, 67, 71, 84>>
DefaultChannelOrder == <<71, 65, 84, 67>>
FirstProcessedTrace == 9

\* !value and value || fallback
IsFalsy(v) ==
  \/ v = Null
  \/ v = JsString(<<>>)
  \/ "scalar" \in DOMAIN v /\ v.scalar = 0
IsArray(v) == "array" \in DOMAIN v
OrElse(v, fallback) == IF IsFalsy(v) THEN fallback ELSE v

\* The accessors below read a parser whose getTagData does not throw for the
\* tag read; TagOf is the value getTagData returns
TagOf(p, name, number) == GetTagDataOf(p, name, number).result
\* ABIFParser.getChannelOrder (the characters as their codes)
GetChannelOrder(p) ==
  LET fwo == TagOf(p, TagFWO, 1)
  IN IF IsFalsy(fwo) THEN DefaultChannelOrder
     ELSE IF IsArray(fwo) THEN fwo.array
     ELSE DefaultChannelOrder
\* ABIFParser.getTraces: the object's properties, one per position of the order
\* (a later position with the same nucleotide overwrites an earlier one)
GetTraces(p) ==
  LET order == GetChannelOrder(p)
      channel(i) == OrElse(TagOf(p, TagDATA, FirstProcessedTrace + i - 1), JsArray(<<>>))
      positions == 1 .. Min(4, Len(order))
      last(n) == CHOOSE i \in positions : order[i] = n /\ \A j \in positions : order[j] = n => j <= i
  IN [n \in {order[i] : i \in positions} |-> channel(last(n))]
\* ABIFParser.getSequence
GetSequence(p) ==
  LET pbas == TagOf(p, TagPBAS, 1)
  IN IF IsFalsy(pbas) THEN JsString(<<>>)
     ELSE IF IsArray(pbas) THEN JsString(pbas.array)
     ELSE pbas
\* ABIFParser.getPeakLocations / getQualityScores
GetPeakLocations(p) == OrElse(TagOf(p, TagPLOC, 1), JsArray(<<>>))
GetQualityScores(p) == OrElse(TagOf(p, TagPCON, 1), JsArray(<<>>))

\* the tags the abif_parse_file response reads, in the order of their first use
ResponseTags ==
  <<GetTagKey(TagPBAS, 1), GetTagKey(TagDATA, 9), GetTagKey(TagFWO, 1),
    GetTagKey(TagDATA, 10), GetTagKey(TagDATA, 11), GetTagKey(TagDATA, 12),
    GetTagKey(TagPLOC, 1), GetTagKey(TagPCON, 1), GetTagKey(TagSMPL, 1),
    GetTagKey(TagCMNT, 1), GetTagKey(TagRunN, 1), GetTagKey(TagRUND, 1),
    GetTagKey(TagRUNT, 1), GetTagKey(TagRUND, 2), GetTagKey(TagRUNT, 2),
    GetTagKey(TagMCHN, 1), GetTagKey(TagMODL, 1), GetTagKey(TagLANE, 1),
    GetTagKey(TagTUBE, 1), GetTagKey(TagSPAC, 1), GetTagKey(TagDySN, 1)>>
\* getTagData for each key in turn, up to the first that throws
RECURSIVE ReadTags(_, _)
ReadTags(p, keys) ==
  IF keys = <<>> THEN [thrown |-> "none", parser |-> p]
  ELSE LET r == GetTagDataOf(p, Head(keys)[1], Head(keys)[2])
       IN IF IsThrown(r.result) THEN [thrown |-> r.result.thrown, parser |-> r.parser]
          ELSE ReadTags(r.parser, Tail(keys))
\* ABIFParser.fromPath and the accessors of the response
ParseFile(buffer) ==
  LET parsed == Parse(NewParser(buffer))
  IN IF parsed.thrown # "none" THEN parsed ELSE ReadTags(parsed.parser, ResponseTags)
\* String.fromCharCode for the letters of a base call
FromCharCode(code) ==
  CASE code = 65 -> "A" [] code = 67 -> "C" [] code = 71 -> "G" [] code = 84 -> "T"
    [] code = 78 -> "N" [] OTHER -> "?"
\* the fields of the response that onFileLoaded hands to loadData, for a
\* sequence that is a string and arrays of scores, peaks and samples
ResponseData(p) ==
  LET codes == GetSequence(p).str
      channels == GetTraces(p)
  IN [sequence |-> [i \in 1 .. Len(codes) |-> FromCharCode(codes[i])],
      qualityScores |-> GetQualityScores(p).array,
      peakLocations |-> GetPeakLocations(p).array,
      traceLength |-> IF 71 \in DOMAIN channels THEN Len(channels[71].array) ELSE 0]

\* The main process answers an abif_parse_file request and the renderer
\* handles the response: onFileLoaded on success, showError otherwise
OpenFile(buffer) ==
  LET response == ParseFile(buffer)
  IN /\ parser' = response.parser
     /\ IF response.thrown = "none"
        THEN Load(ResponseData(response.parser))
        ELSE /\ call' = [op |-> "parseFile", success |-> FALSE, error |-> response.thrown]
             /\ UNCHANGED appVars
\* new ABIFParser(buffer).parse(), as at the end of ABIFParser.fromPath
ParseBuffer(buffer) ==
  LET parsed == Parse(NewParser(buffer))
  IN /\ parser' = parsed.parser
     /\ call' = [op |-> "parse", thrown |-> parsed.thrown]
     /\ UNCHANGED appVars
\* parser.getAllData() on a parsed parser
GetAllData ==
  LET r == GetAllDataOf(parser, 1)
  IN /\ parser.parsed
     /\ parser' = r.parser
     /\ call' = [op |-> "getAllData", thrown |-> r.thrown]
     /\ UNCHANGED appVars
\* parser.getTagData(name, number) on the parser of the last request; the
\* value returned is the one the cache holds afterwards, or null or thrown
GetTagData(name, number) ==
  LET r == GetTagDataOf(parser, name, number)
  IN /\ parser.parsed
     /\ parser' = r.parser
     /\ call' = [op |-> "getTagData",
                 outcome |-> IF r.result = Null THEN "null"
                             ELSE IF IsThrown(r.result) THEN "thrown" ELSE "data"]
     /\ UNCHANGED appVars

(***************************************************************************)
(* Synthetic files: the byte layout that _parseHeader, _parseDirectoryEntry *)
(* and _extractData read, written out for known values                     *)
(***************************************************************************)
Uint16Bytes(v) == <<v \div 256, v % 256>>
IntBytes(v) == <<0, 0>> \o Uint16Bytes(v)
Zeros(n) == [i \in 1 .. n |-> 0]
\* the length of the header of a file
HeaderLength == 128
\* the character codes of "tdir" and the type code of the directory
TagTdir == <<116, 100, 105, 114>>
TypeDirectory == 1023
FormatVersion == 101
EncodeHeader(magic, numEntries) ==
  magic \o Uint16Bytes(FormatVersion) \o TagTdir \o IntBytes(1) \o Uint16Bytes(TypeDirectory)
    \o Uint16Bytes(EntryBytes) \o IntBytes(numEntries) \o IntBytes(numEntries * EntryBytes)
    \o IntBytes(HeaderLength) \o IntBytes(0) \o Zeros(HeaderLength - HeaderBytes)
\* one element of an array type
EncodeElement(type, v) ==
  CASE type \in {TypeByte, TypeChar} -> <<v>>
    [] type = TypeWord -> Uint16Bytes(v)
    [] type = TypeShort -> Uint16Bytes(IF v < 0 THEN v + 65536 ELSE v)
    [] type = TypeLong ->
         Uint16Bytes(IF v < 0 THEN 65536 + (v \div 65536) ELSE v \div 65536)
           \o Uint16Bytes(v % 65536)
    [] type = TypeFloat -> Uint32Bytes(v.float32)
    [] type = TypeDouble -> Uint32Bytes(v.float64[1]) \o Uint32Bytes(v.float64[2])
RECURSIVE EncodeArray(_, _)
EncodeArray(type, values) ==
  IF values = <<>> THEN <<>>
  ELSE EncodeElement(type, Head(values)) \o EncodeArray(type, Tail(values))
EncodeDate(d) == Uint16Bytes(d.year) \o <<d.month, d.day>>
EncodeTime(t) == <<t.hour, t.minute, t.second, t.hsecond>>
EncodePString(codes) == <<Len(codes)>> \o codes
EncodeCString(codes) == codes \o <<0>>
\* a tag of the directory with its payload
Item(name, number, type, size, count, payload) ==
  [name |-> name, number |-> number, elementtype |-> type, elementsize |-> size,
   numelements |-> count, payload |-> payload]
ArrayItem(name, number, type, values) ==
  Item(name, number, type, ElementWidth(type), Len(values), EncodeArray(type, values))
\* the directory records and the data area of the items; a payload of at most
\* four bytes sits left-justified in the dataoffset field
RECURSIVE EncodeDirectory(_, _)
EncodeDirectory(items, dataStart) ==
  IF items = <<>> THEN [directory |-> <<>>, data |-> <<>>]
  ELSE LET e == Head(items)
           inline == Len(e.payload) <= 4
           location == IF inline THEN e.payload \o Zeros(4 - Len(e.payload))
                       ELSE IntBytes(dataStart)
           rest == EncodeDirectory(Tail(items),
                                   IF inline THEN dataStart ELSE dataStart + Len(e.payload))
       IN [directory |-> e.name \o IntBytes(e.number) \o Uint16Bytes(e.elementtype)
                           \o Uint16Bytes(e.elementsize) \o IntBytes(e.numelements)
                           \o IntBytes(Len(e.payload)) \o location \o IntBytes(0)
                           \o rest.directory,
           data |-> (IF inline THEN <<>> ELSE e.payload) \o rest.data]
EncodeFile(magic, items) ==
  LET body == EncodeDirectory(items, HeaderLength + Len(items) * EntryBytes)
  IN EncodeHeader(magic, Len(items)) \o body.directory \o body.data

Take(values, n) == SubSeq(values, 1, n)
\* known values of every element type
ByteValues == <<200, 0, 255, 7>>
CharValues == <<71, 65, 84, 67>>
WordValues == <<65535, 32768, 1, 0>>
ShortValues == <<-1, 32767, -32768, 5>>
LongValues == <<-2147483647 - 1, 2147483647, -1, 65536>>
FloatValues ==
  <<Float32([hi |-> 16256, lo |-> 0]), Float32([hi |-> 49152, lo |-> 1]),
    Float32([hi |-> 0, lo |-> 0]), Float32([hi |-> 32767, lo |-> 65535])>>
DoubleValues ==
  <<Float64([hi |-> 16368, lo |-> 0], [hi |-> 0, lo |-> 0]),
    Float64([hi |-> 49152, lo |-> 1], [hi |-> 65535, lo |-> 65535]),
    Float64([hi |-> 0, lo |-> 0], [hi |-> 0, lo |-> 1]),
    Float64([hi |-> 1, lo |-> 2], [hi |-> 3, lo |-> 4])>>
DateValue == [year |-> 2024, month |-> 2, day |-> 29]
TimeValue == [hour |-> 23, minute |-> 59, second |-> 58, hsecond |-> 99]
StringCodes == <<72, 105, 33, 63>>
ArrayValues(type) ==
  CASE type = TypeByte -> ByteValues [] type = TypeChar -> CharValues
    [] type = TypeWord -> WordValues [] type = TypeShort -> ShortValues
    [] type = TypeLong -> LongValues [] type = TypeFloat -> FloatValues
    [] type = TypeDouble -> DoubleValues
\* the character codes of "TEST": the tags of the synthetic directories are
\* TEST_<type code>
TagTEST == <<84, 69, 83, 84>>
KnownTypes == <<TypeByte, TypeChar, TypeWord, TypeShort, TypeLong, TypeFloat, TypeDouble,
                TypeDate, TypeTime, TypePString, TypeCString>>
\* the values a directory with arrays and strings of count elements encodes
KnownValue(type, count) ==
  CASE type \in ArrayTypes -> JsArray(Take(ArrayValues(type), count))
    [] type = TypeDate -> DateValue
    [] type = TypeTime -> TimeValue
    [] type \in {TypePString, TypeCString} -> JsString(Take(StringCodes, count))
RoundTripItem(type, count) ==
  CASE type \in ArrayTypes -> ArrayItem(TagTEST, type, type, Take(ArrayValues(type), count))
    [] type = TypeDate -> Item(TagTEST, type, type, 4, 1, EncodeDate(DateValue))
    [] type = TypeTime -> Item(TagTEST, type, type, 4, 1, EncodeTime(TimeValue))
    [] type = TypePString ->
         Item(TagTEST, type, type, 1, count + 1, EncodePString(Take(StringCodes, count)))
    [] type = TypeCString ->
         Item(TagTEST, type, type, 1, count + 1, EncodeCString(Take(StringCodes, count)))
RoundTripFile(count) ==
  EncodeFile(AbifMagic, [i \in 1 .. Len(KnownTypes) |-> RoundTripItem(KnownTypes[i], count)])
Counts == 1 .. MaxCount

\* a file of two bases with every core tag, and one with some of them
SamplesG == <<0, 9, 3, 0, 1, 0>>
SamplesA == <<0, 1, 2, 1, 8, 2>>
SamplesT == <<1, 0, 0, 1, 0, 0>>
SamplesC == <<0, 0, 1, 0, 0, 1>>
CoreItems ==
  <<ArrayItem(TagPBAS, 1, TypeChar, <<71, 65>>),
    ArrayItem(TagPLOC, 1, TypeShort, <<1, 4>>),
    ArrayItem(TagPCON, 1, TypeChar, <<30, 20>>),
    ArrayItem(TagFWO, 1, TypeChar, DefaultChannelOrder),
    ArrayItem(TagDATA, 9, TypeShort, SamplesG),
    ArrayItem(TagDATA, 10, TypeShort, SamplesA),
    ArrayItem(TagDATA, 11, TypeShort, SamplesT),
    ArrayItem(TagDATA, 12, TypeShort, SamplesC)>>
FileCore == EncodeFile(AbifMagic, CoreItems)
FilePartial == EncodeFile(AbifMagic, <<CoreItems[1], CoreItems[2], CoreItems[5]>>)
FileNoTags == EncodeFile(AbifMagic, <<>>)
\* entries of element types that are no ABIF type, between entries that are:
\* two bytes in the dataoffset field and six bytes in the data area
TypeUnknown == 6
TypeUser == 1024
RawBytes == <<222, 173, 190, 239, 0, 10>>
UnknownItems ==
  <<ArrayItem(TagTEST, TypeWord, TypeWord, <<258, 772>>),
    Item(TagTEST, TypeUnknown, TypeUnknown, 1, 2, <<10, 255>>),
    Item(TagTEST, TypeUser, TypeUser, 1, 6, RawBytes),
    ArrayItem(TagTEST, TypeShort, TypeShort, <<-2, 3, 4>>)>>
FileUnknownTypes == EncodeFile(AbifMagic, UnknownItems)
\* files that are no ABIF file: a full header with another magic, with and
\* without a directory, and a file shorter than the header
OtherMagic == <<65, 66, 73, 88>>
FileOtherMagic == EncodeFile(OtherMagic, CoreItems)
FileZeros == Zeros(HeaderLength)
FileShort == <<80, 75, 3, 4, 20, 0>>
NotAbifFiles == {FileOtherMagic, FileZeros, FileShort}

(***************************************************************************)
(* Specifications                                                          *)
(***************************************************************************)
\* indices of existing bases, as a click on the chromatogram yields them
BaseIndices == 0 .. MaxArg
\* indices of a ChangeBaseCommand: before the first base, the first base and
\* an index past the end of every file
EditArgs == {-1, 0, MaxArg}
\* arguments of setSelection: the first base and an index past every file
SelectionArgs == {0, MaxArg}

\* the model and the view state that depends on it, under inbound commands
\* whose arguments lie inside and outside the valid ranges
Next ==
  \/ \E f \in Files : Load(f) /\ UNCHANGED <<run, parser, raw, pointer>>
  \/ \E index \in EditArgs, oldBase \in Bases : EditBase(index, oldBase, "G") /\ UNCHANGED <<run, parser, raw, pointer>>
  \/ \E trimStart \in Args, trimEnd \in Args : ApplyTrim(trimStart, trimEnd) /\ UNCHANGED <<run, parser, raw, pointer>>
  \/ \E start \in SelectionArgs, end \in SelectionArgs : SetSelection(start, end) /\ UNCHANGED <<run, parser, raw, pointer>>
  \/ \E pattern \in Patterns : Search(pattern) /\ UNCHANGED <<run, parser, raw, pointer>>

Spec == Init /\ [][Next]_vars

\* observer of the edit history: a run is a number of consecutive edits
\* followed by undo() calls; start is the sequence before the first edit
RunEdit ==
  run' = IF run.edits > 0 /\ run.undos = 0 THEN [run EXCEPT !.edits = @ + 1]
         ELSE [edits |-> 1, undos |-> 0, start |-> sequence]
RunUndo ==
  run' = IF run.edits > 0 /\ run.undos < run.edits THEN [run EXCEPT !.undos = @ + 1] ELSE NoRun

\* the edit history under edits of existing bases; a run of consecutive
\* edits is followed as far as one edit past maxSize
NextHistory ==
  \/ Load(FileGA) /\ run' = NoRun /\ UNCHANGED <<parser, raw, pointer>>
  \/ FitTimer /\ UNCHANGED <<run, parser, raw, pointer>>
  \/ \E index \in BaseIndices, oldBase \in Bases, newBase \in NewBases :
        /\ index < Len(sequence)
        /\ run.undos > 0 \/ run.edits <= MaxSize
        /\ EditBase(index, oldBase, newBase)
        /\ RunEdit
        /\ UNCHANGED <<parser, raw, pointer>>
  \/ Undo /\ RunUndo /\ UNCHANGED <<parser, raw, pointer>>
  \/ Redo /\ run' = NoRun /\ UNCHANGED <<parser, raw, pointer>>

SpecHistory == Init /\ [][NextHistory]_vars

\* canvas offsets of pointer events and targets of user scrolling
PointerXs == {5, 35, 55, 60}
ScrollLefts == {0, ContainerWidth}
\* the drag machine and the selection it commits
NextDrag ==
  \/ \E f \in {FileGA, FileNoQuality} : Load(f) /\ UNCHANGED <<run, parser, raw, pointer>>
  \/ FitTimer /\ UNCHANGED <<run, parser, raw, pointer>>
  \/ \E relativeX \in PointerXs : MouseDown(relativeX) /\ UNCHANGED <<run, parser, raw, pointer>>
  \/ \E relativeX \in PointerXs : MouseMove(relativeX) /\ UNCHANGED <<run, parser, raw, pointer>>
  \/ \E relativeX \in PointerXs : MouseUp(relativeX) /\ UNCHANGED <<run, parser, raw, pointer>>
  \/ \E scrollLeft \in ScrollLefts : Scroll(scrollLeft) /\ UNCHANGED <<run, parser, raw, pointer>>
  \/ \E start \in SelectionArgs, end \in SelectionArgs : SetSelection(start, end) /\ UNCHANGED <<run, parser, raw, pointer>>

SpecDrag == Init /\ [][NextDrag]_vars

\* a file with overlapping occurrences, both letter cases and the pair SS
FileSearch == [sequence |-> <<"G", "g", "G", "S", "S">>, qualityScores |-> <<30, 30, 30, 30, 30>>, peakLocations |-> <<5, 15, 25, 35, 45>>, traceLength |-> 50]
SearchPatterns == {<<"g", "G">>, <<"G">>, <<"s">>, <<"ß">>, <<"A">>, <<"G", "G", "G", "G", "G", "G">>, <<>>}
\* search and match navigation
NextSearch ==
  \/ \E f \in {FileSearch, FileGA, EmptyFile} : Load(f) /\ UNCHANGED <<run, parser, raw, pointer>>
  \/ FitTimer /\ UNCHANGED <<run, parser, raw, pointer>>
  \/ \E pattern \in SearchPatterns : Search(pattern) /\ UNCHANGED <<run, parser, raw, pointer>>
  \/ NextMatch /\ UNCHANGED <<run, parser, raw, pointer>>
  \/ PreviousMatch /\ UNCHANGED <<run, parser, raw, pointer>>
  \/ ClearSearch /\ UNCHANGED <<run, parser, raw, pointer>>

SpecSearch == Init /\ [][NextSearch]_vars

\* a file of three bases whose scores are not in order
FileThree ==
  [sequence |-> <<"A", "C", "G">>, qualityScores |-> <<30, 10, 25>>,
   peakLocations |-> <<5, 15, 25>>, traceLength |-> 30]
\* trimming a file, with the selection that a trim clears
NextTrim ==
  \/ \E f \in {FileThree, FileNoQuality} : Load(f) /\ UNCHANGED <<run, parser, raw, pointer>>
  \/ FitTimer /\ UNCHANGED <<run, parser, raw, pointer>>
  \/ \E trimStart \in Args, trimEnd \in Args : ApplyTrim(trimStart, trimEnd) /\ UNCHANGED <<run, parser, raw, pointer>>
  \/ \E start \in SelectionArgs, end \in SelectionArgs : SetSelection(start, end) /\ UNCHANGED <<run, parser, raw, pointer>>

SpecTrim == Init /\ [][NextTrim]_vars

\* score arrays with a plateau of high scores between runs of low scores:
\* every plateau of every length up to MaxScores, of the 20 scores of the
\* quality-trim scenario and of 26 scores
Plateau(n, from, to) == [i \in 1 .. n |-> IF from < i /\ i <= to THEN 30 ELSE 5]
ScoreLengths == (0 .. MaxScores) \cup {20, 26}
ScoreArrays == {Plateau(n, from, to) : n \in ScoreLengths, from \in 0 .. 26, to \in 0 .. 26}
QualityFile(scores) ==
  [sequence |-> [i \in 1 .. Len(scores) |-> "A"], qualityScores |-> scores,
   peakLocations |-> [i \in 1 .. Len(scores) |-> 10 * i - 5],
   traceLength |-> 10 * Len(scores)]
Thresholds == {<<DefaultUpperThreshold, DefaultLowerThreshold>>, <<20, 18>>}
\* previews of the quality trim of a loaded file
NextQuality ==
  \/ \E scores \in ScoreArrays : Load(QualityFile(scores)) /\ UNCHANGED <<run, parser, raw, pointer>>
  \/ \E t \in Thresholds : PreviewQualityTrim(t[1], t[2]) /\ UNCHANGED <<run, parser, raw, pointer>>

SpecQuality == Init /\ [][NextQuality]_vars

\* plateaus in arrays of one score, of fewer scores than a window, of a
\* window and of more
TrimScoreLengths == {1, 10, 11, MaxScores, 20}
TrimScoreArrays ==
  {Plateau(n, from, to) : n \in TrimScoreLengths, from \in 0 .. 8, to \in {0, 6, 9, 11, 12, 14, 16, 20}}
\* the default thresholds, a close pair and a lower threshold above the upper
TrimThresholds == Thresholds \cup {<<10, 28>>}
\* quality trims of a loaded file
NextQualityTrim ==
  \/ \E scores \in TrimScoreArrays : Load(QualityFile(scores)) /\ UNCHANGED <<run, parser, raw, pointer>>
  \/ \E t \in TrimThresholds : ApplyQualityTrim(t[1], t[2]) /\ UNCHANGED <<run, parser, raw, pointer>>

SpecQualityTrim == Init /\ [][NextQualityTrim]_vars

\* a file whose traces are longer than twice the container is wide
FileLong == QualityFile(Plateau(7, 0, 7))
ZoomFiles == {EmptyFile, FileGA, FileLong}
\* requested scales below, within and above the limits
ZoomScales == {<<1, 4>>, <<1, 1>>, <<3, 1>>, <<20, 1>>}
ZoomScrollLefts == {0, 7, 1000}
\* zooming and scrolling the chromatogram of a loaded file
NextZoom ==
  \/ \E f \in ZoomFiles : Load(f) /\ UNCHANGED <<run, parser, raw, pointer>>
  \/ FitTimer /\ UNCHANGED <<run, parser, raw, pointer>>
  \/ ZoomIn /\ UNCHANGED <<run, parser, raw, pointer>>
  \/ ZoomOut /\ UNCHANGED <<run, parser, raw, pointer>>
  \/ ZoomFit /\ UNCHANGED <<run, parser, raw, pointer>>
  \/ \E scale \in ZoomScales : SetZoomTo(scale) /\ UNCHANGED <<run, parser, raw, pointer>>
  \/ \E scrollLeft \in ZoomScrollLefts : Scroll(scrollLeft) /\ UNCHANGED <<run, parser, raw, pointer>>

SpecZoom == Init /\ [][NextZoom]_vars

\* loads, trims and the responses that carry raw traces, in any order
NextRaw ==
  \/ \E f \in {FileThree, FileGA} : LoadFile(f) /\ UNCHANGED <<run, parser, pointer>>
  \/ \E f \in {FileThree, FileGA} : RawTracesResponse(f) /\ UNCHANGED <<run, parser, pointer>>
  \/ \E trimStart \in Args, trimEnd \in Args : TrimFile(trimStart, trimEnd) /\ UNCHANGED <<run, parser, pointer>>
  \/ FitTimer /\ UNCHANGED <<run, parser, raw, pointer>>

SpecRaw == Init /\ [][NextRaw]_vars

\* a drag that a trim or a load interrupts: the button is released outside
\* the canvas, which then receives no mouseup
DragTrimXs == {5, 25, 60}
NextDragTrim ==
  \/ \E f \in {FileThree, FileGA} : Load(f) /\ UNCHANGED <<run, parser, raw, pointer>>
  \/ FitTimer /\ UNCHANGED <<run, parser, raw, pointer>>
  \/ \E relativeX \in DragTrimXs : MouseDown(relativeX) /\ UNCHANGED <<run, parser, raw, pointer>>
  \/ \E relativeX \in DragTrimXs : MouseMove(relativeX) /\ UNCHANGED <<run, parser, raw, pointer>>
  \/ \E relativeX \in DragTrimXs : MouseUp(relativeX) /\ UNCHANGED <<run, parser, raw, pointer>>
  \/ \E trimStart \in Args, trimEnd \in Args : ApplyTrim(trimStart, trimEnd) /\ UNCHANGED <<run, parser, raw, pointer>>
  \/ \E scrollLeft \in ScrollLefts : Scroll(scrollLeft) /\ UNCHANGED <<run, parser, raw, pointer>>

SpecDragTrim == Init /\ [][NextDragTrim]_vars

\* drags near the edges of the canvas; the timer of a load is the one
\* callback the runtime schedules by itself
NextAutoScroll ==
  \/ \E f \in {FileGA, FileLong} : Load(f) /\ UNCHANGED <<run, parser, raw, pointer>>
  \/ FitTimer /\ UNCHANGED <<run, parser, raw, pointer>>
  \/ \E relativeX \in PointerXs : PointerDown(relativeX) /\ UNCHANGED <<run, parser, raw>>
  \/ \E relativeX \in PointerXs : PointerMove(relativeX) /\ UNCHANGED <<run, parser, raw>>
  \/ \E relativeX \in PointerXs : PointerUp(relativeX) /\ UNCHANGED <<run, parser, raw>>
  \/ \E scrollLeft \in ScrollLefts : Scroll(scrollLeft) /\ UNCHANGED <<run, parser, raw, pointer>>

\* the step of the timer: FitTimer is the one step that ends fitPending
FitTimerStep == fitPending /\ fitPending' = FALSE
\* the timer of a load fires; pointer events are the user's to give or not
SpecAutoScroll ==
  /\ Init
  /\ [][NextAutoScroll]_vars
  /\ WF_fitPending(FitTimerStep)

\* searches of the one pattern g on a file that is edited and trimmed
NextSearchEdit ==
  \/ Load(FileGA) /\ UNCHANGED <<run, parser, raw, pointer>>
  \/ \E pattern \in Patterns : Search(pattern) /\ UNCHANGED <<run, parser, raw, pointer>>
  \/ \E index \in BaseIndices, oldBase \in Bases, newBase \in NewBases :
        /\ index < Len(sequence)
        /\ EditBase(index, oldBase, newBase)
        /\ UNCHANGED <<run, parser, raw, pointer>>
  \/ Undo /\ UNCHANGED <<run, parser, raw, pointer>>
  \/ Redo /\ UNCHANGED <<run, parser, raw, pointer>>
  \/ \E trimStart \in Args, trimEnd \in Args : ApplyTrim(trimStart, trimEnd) /\ UNCHANGED <<run, parser, raw, pointer>>

SpecSearchEdit == Init /\ [][NextSearchEdit]_vars

\* observer of undo and redo: a streak is a number of consecutive undo()
\* calls followed by redo() calls; sequence, undoStack and redoStack are the
\* state before its first undo
StreakUndo ==
  run' = IF Len(undoStack) = 0 THEN run
         ELSE IF run.undos > 0 /\ run.redos = 0 THEN [run EXCEPT !.undos = @ + 1]
         ELSE [undos |-> 1, redos |-> 0, sequence |-> sequence,
               undoStack |-> undoStack, redoStack |-> redoStack]
StreakRedo ==
  run' = IF Len(redoStack) = 0 THEN run
         ELSE IF run.undos > 0 /\ run.redos < run.undos THEN [run EXCEPT !.redos = @ + 1]
         ELSE NoRun
\* edits of existing bases, undone and redone
NextUndoRedo ==
  \/ Load(FileGA) /\ run' = NoRun /\ UNCHANGED <<parser, raw, pointer>>
  \/ \E index \in BaseIndices, oldBase \in Bases, newBase \in NewBases :
        /\ index < Len(sequence)
        /\ EditBase(index, oldBase, newBase)
        /\ run' = NoRun
        /\ UNCHANGED <<parser, raw, pointer>>
  \/ Undo /\ StreakUndo /\ UNCHANGED <<parser, raw, pointer>>
  \/ Redo /\ StreakRedo /\ UNCHANGED <<parser, raw, pointer>>

SpecUndoRedo == Init /\ [][NextUndoRedo]_vars

\* the file of four tags, whole and without the last two bytes of the data
\* of its last tag
FileCut == SubSeq(FileUnknownTypes, 1, Len(FileUnknownTypes) - 2)
CacheFiles == {FileUnknownTypes, FileCut}
\* the tags of these files and a tag they do not hold
CacheTags ==
  {GetTagKey(TagTEST, type) : type \in {TypeWord, TypeUnknown, TypeUser, TypeShort}}
    \cup {GetTagKey(TagPCON, 1)}
\* the most extractions of one parser
MaxDecoded == 6
\* observer of getTagData: the keys asked of the parser since it was made,
\* and whether the last call asked for one of them again
AskedNone == run' = [asked |-> {}, repeated |-> FALSE]
Asked(key) == run' = [asked |-> run.asked \cup {key}, repeated |-> key \in run.asked]
\* parsers and the tags read from them, one at a time and all at once
NextCache ==
  \/ \E buffer \in CacheFiles : ParseBuffer(buffer) /\ AskedNone /\ UNCHANGED <<raw, pointer>>
  \/ \E key \in CacheTags :
        /\ parser.decoded < MaxDecoded
        /\ GetTagData(key[1], key[2])
        /\ Asked(key)
        /\ UNCHANGED <<raw, pointer>>
  \/ parser.decoded < MaxDecoded /\ GetAllData /\ UNCHANGED <<run, raw, pointer>>

SpecCache == Init /\ [][NextCache]_vars

\* the files opened and the tags asked for
ParserFiles ==
  {FileCore, FilePartial, FileNoTags, FileUnknownTypes} \cup NotAbifFiles
    \cup {RoundTripFile(count) : count \in Counts}
ProbeTags ==
  {GetTagKey(TagTEST, KnownTypes[i]) : i \in 1 .. Len(KnownTypes)}
    \cup {GetTagKey(TagTEST, TypeUnknown), GetTagKey(TagTEST, TypeUser), GetTagKey(TagPCON, 1)}
\* opening files, reading their tags, and editing the file on display
NextParser ==
  \/ \E buffer \in ParserFiles : OpenFile(buffer) /\ UNCHANGED <<run, raw, pointer>>
  \/ \E key \in ProbeTags : GetTagData(key[1], key[2]) /\ UNCHANGED <<run, raw, pointer>>
  \/ EditBase(0, "G", "A") /\ UNCHANGED <<run, parser, raw, pointer>>

SpecParser == Init /\ [][NextParser]_vars

(***************************************************************************)
(* Properties of the chromatogram model (specification Spec)               *)
(***************************************************************************)
InRange(i, n) == i >= 0 /\ i < n

\* C1: in every reachable state the sequence, the quality scores and the
\* peak locations have the same length.
C1_EqualLengths ==
  /\ Len(sequence) = Len(qualityScores)
  /\ Len(sequence) = Len(peakLocations)

\* C2: applyTrim(start, end) with start > end, or with either index outside
\* [0, len), is rejected with an invalid-range result and leaves the sequence,
\* the quality scores, the peaks, the traces, the selection, the search
\* matches and the modification markers as they were.
C2_InvalidRangeRejected ==
  [][\A trimStart \in Args, trimEnd \in Args :
       (/\ call'.op = "applyTrim"
        /\ \/ trimStart > trimEnd
           \/ ~InRange(trimStart, Len(sequence))
           \/ ~InRange(trimEnd, Len(sequence))
        /\ ApplyTrim(trimStart, trimEnd))
       => /\ call' = [op |-> "applyTrim", success |-> FALSE]
          /\ UNCHANGED <<modelVars, viewVars>>]_vars

C4_TrimClearsView ==
  (call.op = "applyTrim" /\ call.success)
  => /\ selection = NoSelection
     /\ searchMatches = <<>>
     /\ currentMatchIndex = -1
     /\ modifications = {}
     /\ scrollX = 0
C4_Witness ==
  /\ call.op = "applyTrim" /\ call.success
  /\ Len(sequence) > 0
  /\ selection = NoSelection /\ searchMatches = <<>> /\ modifications = {}
  /\ scrollX = 0

\* C5: in every reachable state a stored selection, every search match and
\* every modification marker refer only to base indices in [0, len(sequence)).
C5_IndicesInRange ==
  /\ selection = NoSelection
     \/ (InRange(selection.start, Len(sequence)) /\ InRange(selection.end, Len(sequence)))
  /\ \A k \in 1 .. Len(searchMatches) :
       InRange(searchMatches[k].start, Len(sequence)) /\ InRange(searchMatches[k].end, Len(sequence))
  /\ \A m \in modifications : InRange(m, Len(sequence))

\* C6: editBase with an index outside [0, len) changes neither the sequence,
\* nor its length, nor the modification markers.
C6_OutOfRangeEditIsNoOp ==
  [][\A index \in Args, oldBase \in Bases, newBase \in NewBases :
       (call'.op = "editBase" /\ ~InRange(index, Len(sequence)) /\ EditBase(index, oldBase, newBase))
       => UNCHANGED <<sequence, modifications>>]_vars

(***************************************************************************)
(* Properties of base edits and of the edit history (SpecHistory)          *)
(***************************************************************************)
\* C7: editBase(index, newBase) with index in [0, len) changes only the
\* character at index, to newBase or to N when newBase is empty; every other
\* character, the length, the quality scores and the peak locations stay.
C7_EditChangesOneBase ==
  [][\A index \in BaseIndices, oldBase \in Bases, newBase \in NewBases :
       (call'.op = "editBase" /\ InRange(index, Len(sequence)) /\ EditBase(index, oldBase, newBase))
       => /\ Len(sequence') = Len(sequence)
          /\ sequence'[index + 1] = (IF newBase = "" THEN "N" ELSE newBase)
          /\ \A j \in 1 .. Len(sequence) : j # index + 1 => sequence'[j] = sequence[j]
          /\ UNCHANGED <<qualityScores, peakLocations>>]_vars
\* the second base of the two-base file was deleted and reads N
C7_Witness ==
  /\ call.op = "editBase"
  /\ sequence = <<"G", "N">>
  /\ 1 \in modifications
  /\ qualityScores = <<30, 20>> /\ peakLocations = <<5, 30>>

C9_EditClearsRedo ==
  [][/\ call'.op = "editBase" => redoStack' = <<>>
     /\ (call.op = "editBase" /\ call'.op = "redo")
        => /\ call'.ok = FALSE
           /\ UNCHANGED <<modelVars, modifications, histVars>>]_vars
\* an edit has just discarded the commands that undo had made redoable
C9_Witness ==
  /\ call.op = "editBase" /\ call.redoDropped > 0
  /\ redoStack = <<>> /\ Len(undoStack) > 0

\* C10: the undo stack never holds more than maxSize commands, undo and redo
\* stack together never hold more than maxSize commands, and an edit executed
\* on a full undo stack discards the oldest command and keeps the others.
C10_HistoryBounded ==
  /\ [](Len(undoStack) <= MaxSize /\ Len(undoStack) + Len(redoStack) <= MaxSize)
  /\ [][(call'.op = "editBase" /\ Len(undoStack) = MaxSize)
        => /\ Len(undoStack') = MaxSize
           /\ SubSeq(undoStack', 1, MaxSize - 1) = Tail(undoStack)]_vars
\* an edit has just pushed the oldest command out of a full undo stack
C10_Witness ==
  /\ call.op = "editBase" /\ call.shifted
  /\ Len(undoStack) = MaxSize /\ redoStack = <<>>

(***************************************************************************)
(* Properties of the drag machine and of the selection (SpecDrag)          *)
(***************************************************************************)
\* C11: a pointer-up that ends a drag whose pointer never moved to another
\* base than the one of the pointer-down creates no selection and emits a
\* base click only; a pointer-up after a pointer-down at base a and a move to
\* a base b # a stores the selection [min(a,b), max(a,b)] and emits exactly
\* one selection-changed event that carries the bases min(a,b) .. max(a,b).
C11_DragCommitsSelection ==
  [][(call'.op = "mouseUp" /\ isDragging)
     => IF dragCurrentBase = dragStartBase
        THEN /\ UNCHANGED selection
             /\ emitted' = <<[type |-> "baseClick", index |-> dragStartBase]>>
        ELSE LET lo == IF dragStartBase < dragCurrentBase THEN dragStartBase ELSE dragCurrentBase
                 hi == IF dragStartBase < dragCurrentBase THEN dragCurrentBase ELSE dragStartBase
             IN /\ selection' = [start |-> lo, end |-> hi]
                /\ emitted' = <<[type |-> "selectionChange", start |-> lo, end |-> hi,
                                 sequence |-> SubSeq(sequence, lo + 1, hi + 1)]>>]_vars
\* a drag over both bases of the two-base file has been committed
C11_Witness ==
  /\ call = [op |-> "mouseUp", wasDragging |-> TRUE, from |-> 0, to |-> 1]
  /\ selection = [start |-> 0, end |-> 1]
  /\ emitted = <<[type |-> "selectionChange", start |-> 0, end |-> 1, sequence |-> <<"G", "A">>]>>
  /\ ~isDragging

\* C12: in every reachable state the selection is none or has start <= end,
\* whatever the direction of the drag or the order of setSelection's arguments.
C12_SelectionNormalized ==
  selection = NoSelection \/ selection.start <= selection.end
\* a drag from the second base back to the first has been committed
C12_Witness ==
  /\ call.op = "mouseUp" /\ call.wasDragging /\ call.from > call.to
  /\ selection = [start |-> call.to, end |-> call.from]

(***************************************************************************)
(* Properties of search and match navigation (SpecSearch)                  *)
(***************************************************************************)
\* the start positions i at which S[i : i + len(P)] equals P when the case
\* of the letters is ignored
OccurrenceStarts(S, P) ==
  {i \in 0 .. Len(S) - Len(P) : ToUpperCase(SubSeq(S, i + 1, i + Len(P))) = ToUpperCase(P)}

\* C13: search(P) with a non-empty pattern stores, in increasing order of
\* start, exactly one match [i, i + len(P) - 1] for every start position i at
\* which S[i : i + len(P)] equals P case-insensitively, returns the number of
\* these positions and makes the first match current when there is one.
C13_SearchFindsOccurrences ==
  [][(call'.op = "search" /\ Len(call'.pattern) > 0)
     => LET starts == OccurrenceStarts(sequence, call'.pattern)
        IN /\ call'.result = Cardinality(starts)
           /\ Len(searchMatches') = Cardinality(starts)
           /\ \A k \in 1 .. Len(searchMatches') :
                /\ searchMatches'[k].start \in starts
                /\ searchMatches'[k].end = searchMatches'[k].start + Len(call'.pattern) - 1
                /\ k > 1 => searchMatches'[k - 1].start < searchMatches'[k].start
           /\ currentMatchIndex' = IF starts = {} THEN -1 ELSE 0]_vars

\* C14: with n >= 1 matches nextMatch makes (current + 1) mod n the current
\* index and previousMatch (current - 1) mod n, both return the new current
\* match, and a previousMatch right after a nextMatch is back at the match
\* that was current before; with no match both return null and change neither
\* the current index nor the matches nor the scroll offset.
C14_NavigationIsCircular ==
  [][LET n == Len(searchMatches)
     IN /\ (call'.op = "nextMatch" /\ n >= 1)
           => /\ currentMatchIndex' = (currentMatchIndex + 1) % n
              /\ call'.result.matchIndex = currentMatchIndex'
              /\ call'.result.start = searchMatches[currentMatchIndex' + 1].start
        /\ (call'.op = "previousMatch" /\ n >= 1)
           => /\ currentMatchIndex' = (currentMatchIndex + n - 1) % n
              /\ call'.result.matchIndex = currentMatchIndex'
              /\ call'.result.start = searchMatches[currentMatchIndex' + 1].start
        /\ (call.op = "nextMatch" /\ call'.op = "previousMatch" /\ n >= 1)
           => currentMatchIndex' = call.before
        /\ (call'.op \in {"nextMatch", "previousMatch"} /\ n = 0)
           => /\ call'.result = "null"
              /\ UNCHANGED <<currentMatchIndex, scrollX>>
        /\ call'.op \in {"nextMatch", "previousMatch"} => UNCHANGED searchMatches]_vars
\* nextMatch has wrapped from the last of several matches to the first
C14_Witness ==
  /\ call.op = "nextMatch"
  /\ Len(searchMatches) >= 2
  /\ call.before = Len(searchMatches) - 1
  /\ currentMatchIndex = 0
\* a buffer that holds a 4-byte magic other than the ABIF signature
HasOtherMagic(buffer) == Len(buffer) >= 4 /\ ReadString4(buffer, 0) # AbifMagic

\* C15: a request to parse a buffer whose 4-byte magic is not the ABIF
\* signature fails with the format error, leaves the parser with an empty
\* directory and not marked parsed, and leaves the file data, the chromatogram
\* and the edit history of the renderer as they were.
C15_OtherMagicFailsWithoutResult ==
  [][(HasOtherMagic(parser'.buffer) /\ (parser' # parser \/ call'.op = "parseFile"))
     => /\ call' = [op |-> "parseFile", success |-> FALSE, error |-> FormatError.thrown]
        /\ parser'.directory = <<>>
        /\ ~parser'.parsed
        /\ UNCHANGED appVars]_vars

\* the values the file with entries of unknown type was written from: the
\* hex digits of the declared bytes for the two unknown entries
UnknownFileValues ==
  [n \in {TypeWord, TypeUnknown, TypeUser, TypeShort} |->
     CASE n = TypeWord -> JsArray(<<258, 772>>)
       [] n = TypeUnknown -> JsString(<<"0", "a", "f", "f">>)
       [] n = TypeUser -> JsString(<<"d", "e", "a", "d", "b", "e", "e", "f", "0", "0", "0", "a">>)
       [] n = TypeShort -> JsArray(<<-2, 3, 4>>)]

\* C16: on a file whose directory holds entries of unknown element type,
\* getTagData never throws; for an unknown entry it returns the declared
\* bytes as a hex string and records one warning, and the entries of known
\* type decode to their values, without a warning, before and after that.
C16_UnknownTypeIsHex ==
  [][(call'.op = "getTagData" /\ parser.buffer = FileUnknownTypes)
     => /\ call'.outcome # "thrown"
        /\ \A t \in parser'.tags \ parser.tags :
             /\ t.key[1] = TagTEST
             /\ t.data = UnknownFileValues[t.key[2]]
             /\ parser'.warnings =
                  IF t.key[2] \in {TypeUnknown, TypeUser} THEN parser.warnings + 1
                  ELSE parser.warnings]_vars
\* both unknown entries and both known entries have been decoded
C16_Witness ==
  /\ parser.buffer = FileUnknownTypes
  /\ parser.warnings = 2
  /\ {t.key[2] : t \in parser.tags} = {TypeWord, TypeUnknown, TypeUser, TypeShort}

\* the synthetic directory of every count, written once
RoundTripFiles == [count \in Counts |-> RoundTripFile(count)]

\* C17: on the synthetic directory that encodes arrays and strings of count
\* known values of every supported element type, for every count from 1 on,
\* getTagData returns for each tag the values that were encoded (signed 16-bit
\* and 32-bit values among them as negative numbers).
C17_RoundTrip ==
  [][\A count \in Counts :
       (call'.op = "getTagData" /\ parser.buffer = RoundTripFiles[count])
       => /\ call'.outcome # "thrown"
          /\ \A t \in parser'.tags \ parser.tags : t.data = KnownValue(t.key[2], count)]_vars

Absent(name, number) == FindEntry(parser, name, number) = 0

\* C18: on a parsed file, an accessor whose tag is absent returns empty data:
\* getSequence the empty string, getQualityScores and getPeakLocations an
\* empty array, getTraces an empty array for the channel of an absent DATA
\* tag, and getChannelOrder G, A, T, C; the file loads with these values.
C18_AbsentTagsAreEmpty ==
  parser.parsed =>
    /\ Absent(TagPBAS, 1) => GetSequence(parser) = JsString(<<>>)
    /\ Absent(TagPCON, 1) => GetQualityScores(parser) = JsArray(<<>>)
    /\ Absent(TagPLOC, 1) => GetPeakLocations(parser) = JsArray(<<>>)
    /\ Absent(TagFWO, 1) => GetChannelOrder(parser) = <<71, 65, 84, 67>>
    /\ \A i \in 1 .. 4 :
         Absent(TagDATA, 8 + i) =>
           GetTraces(parser)[GetChannelOrder(parser)[i]] = JsArray(<<>>)
\* a file without any core tag has been loaded as empty data, and a file
\* without the quality and order tags with the data of its other tags
C18_Witness ==
  /\ parser.parsed
  /\ loaded
  /\ \/ /\ parser.buffer = FileNoTags
        /\ sequence = <<>> /\ qualityScores = <<>> /\ peakLocations = <<>>
        /\ TraceLength(traces) = 0
     \/ /\ parser.buffer = FilePartial
        /\ sequence = <<"G", "A">> /\ qualityScores = <<>> /\ peakLocations = <<1, 4>>

\* C19: the peak locations of the loaded file are numbers that are not
\* negative and do not decrease, after every editBase and applyTrim.
C19_PeaksNonDecreasing ==
  /\ \A i \in 1 .. Len(peakLocations) : peakLocations[i] # NaN /\ peakLocations[i] >= 0
  /\ \A i \in 1 .. Len(peakLocations) - 1 : peakLocations[i] <= peakLocations[i + 1]

\* C20: when applyTrim(s, e) is applied with 0 <= s <= e < len, the
\* statistics (min, max, mean, median, count) of the whole score array after
\* the trim are the statistics of the range [s, e] of the scores before it.
C20_TrimKeepsStatistics ==
  [][\A trimStart \in Args, trimEnd \in Args :
       (/\ call'.op = "applyTrim"
        /\ 0 <= trimStart /\ trimStart <= trimEnd /\ trimEnd < Len(sequence)
        /\ ApplyTrim(trimStart, trimEnd))
       => CalculateStatistics(qualityScores', 0, NullEnd)
            = CalculateStatistics(qualityScores, trimStart, trimEnd)]_vars
\* the three-base file was trimmed to its last two bases, whose scores 10 and
\* 25 have the mean and the median 35/2
C20_Witness ==
  /\ call = [op |-> "applyTrim", success |-> TRUE]
  /\ qualityScores = <<10, 25>>
  /\ CalculateStatistics(qualityScores, 0, NullEnd)
       = [min |-> 10, max |-> 25, mean |-> <<35, 2>>, median |-> <<35, 2>>, length |-> 2]

\* the scores of the quality-trim scenario, the 0-based positions of its
\* plateau and of its scan, and ten times the window average at a position
ScenarioScores ==
  <<5, 5, 5, 5, 5, 30, 30, 30, 30, 30, 30, 30, 30, 30, 5, 5, 5, 5, 5, 5>>
ScenarioPlateau == {i \in 0 .. 19 : ScenarioScores[i + 1] = 30}
ScenarioScan == 5 .. 14
WindowTotal(i) ==
  LET at(j) == ScenarioScores[j + 1]
  IN at(i - 5) + at(i - 4) + at(i - 3) + at(i - 2) + at(i - 1)
       + at(i + 1) + at(i + 2) + at(i + 3) + at(i + 4) + at(i + 5)
IsScenarioPreview ==
  /\ call.op = "previewQualityTrim"
  /\ qualityScores = ScenarioScores
  /\ call.upper = 24 /\ call.lower = 15

\* C21 as stated: for the scenario scores with thresholds 24 and 15, trimStart
\* is the first position of the scan, inside the plateau, whose window
\* average is at least 24, and trimEnd is the last plateau position before
\* the position at which the window average falls below 15.
C21_ScenarioFallsBelowLower ==
  IsScenarioPreview =>
    LET reached == {i \in ScenarioScan : WindowTotal(i) >= 240}
        first == CHOOSE i \in reached : \A j \in reached : i <= j
        falls == {i \in ScenarioScan : i > first /\ WindowTotal(i) < 150}
        fall == CHOOSE i \in falls : \A j \in falls : i <= j
        before == {i \in ScenarioPlateau : i < fall}
    IN /\ reached # {}
       /\ call.trimPoints.trimStart = first
       /\ first \in ScenarioPlateau
       /\ falls # {}
       /\ call.trimPoints.trimEnd = CHOOSE i \in before : \A j \in before : j <= i

\* C21: for the scenario scores with thresholds 24 and 15, trimStart is the
\* first position of the scan whose window average is at least 24, which is
\* position 8 inside the plateau, and trimEnd is the last position whose
\* window average is at least 24, which is position 10 inside the plateau;
\* the window average is below 15 at no position of the scan.
C21_ScenarioTrimPoints ==
  IsScenarioPreview =>
    LET reached == {i \in ScenarioScan : WindowTotal(i) >= 240}
    IN /\ reached # {}
       /\ \A i \in ScenarioScan : WindowTotal(i) >= 150
       /\ call.trimPoints.trimStart \in reached \cap ScenarioPlateau
       /\ call.trimPoints.trimEnd \in reached \cap ScenarioPlateau
       /\ \A i \in reached :
            call.trimPoints.trimStart <= i /\ i <= call.trimPoints.trimEnd
       /\ call.trimPoints = [trimStart |-> 8, trimEnd |-> 10]
\* the preview of the scenario file with the default thresholds shows the
\* range from 8 to 10
C21_Witness ==
  /\ IsScenarioPreview
  /\ call.trimPoints = [trimStart |-> 8, trimEnd |-> 10]
  /\ call.stats.length = 3

\* C22: for every array of fewer than 11 scores findTrimPoints returns
\* trimStart = 0 and trimEnd = len - 1.
C22_ShortKeepsEverything ==
  (call.op = "previewQualityTrim" /\ Len(qualityScores) < 11)
  => call.trimPoints = [trimStart |-> 0, trimEnd |-> Len(qualityScores) - 1]

(***************************************************************************)
(* Properties of the viewport (specification SpecZoom)                     *)
(***************************************************************************)
\* C23: in every reachable state the scale lies within [minXScale,
\* maxXScale] = [0.5, 10]: setZoom, zoomIn, zoomOut and fitToView clamp the
\* scale they are asked for.
C23_ScaleWithinLimits ==
  /\ ~RatLess(xScale, MinXScaleRat)
  /\ ~RatLess(MaxXScaleRat, xScale)
\* a request above the maximum has been clamped
C23_Witness ==
  /\ call.op = "setZoom"
  /\ RatLess(MaxXScaleRat, call.scale)
  /\ xScale = MaxXScaleRat
\* a fit: the toolbar's command or the timer of a load
FitRequested == call'.op = "fitToView" \/ (fitPending /\ ~fitPending')
C25_FitIsIdempotent ==
  [][call.op = "fitToView" /\ call'.op = "fitToView"
       => xScale' = xScale /\ scrollX' = scrollX]_vars
\* a second fit in a row, of a trace scrolled away from its start
C25_Witness ==
  /\ call.op = "fitToView"
  /\ call.repeated
  /\ xScale # DefaultXScaleRat
  /\ scrollX > 0

\* a call of setZoom, directly or from zoomIn, zoomOut or fitToView
Zooming == call'.op \in {"setZoom", "zoomIn", "zoomOut", "fitToView"}
C27_RawTracesMatch ==
  raw.installed
    => /\ raw.file = raw.current
       /\ raw.lo = traces.lo
       /\ raw.hi = traces.hi

(***************************************************************************)
(* Properties of a drag across a trim or a load (specification             *)
(* SpecDragTrim)                                                           *)
(***************************************************************************)
\* C28: while a drag is in progress its start and current base are bases of
\* the model on display, also after a trim or a load, and the selection a
\* mouseup commits has no index >= Len(sequence).
C28_DragIndicesInModel ==
  /\ isDragging => /\ InRange(dragStartBase, Len(sequence))
                   /\ InRange(dragCurrentBase, Len(sequence))
  /\ (call.op = "mouseUp" /\ call.wasDragging) => selection.end < Len(sequence)

(***************************************************************************)
(* Properties of the drag machine (specification SpecDrag)                 *)
(***************************************************************************)
\* C29: the drag machine is Idle or Dragging. It leaves Idle only on a
\* mousedown that resolves to a base, which clears the selection and records
\* the base as the start of the drag; a mouseup while Dragging returns to
\* Idle and resets the start and the end of the drag to none (-1); a
\* mousedown that resolves to no base leaves the drag state and the
\* selection as they are.
C29_DragMachine ==
  [][/\ (~isDragging /\ isDragging') => call'.op = "mouseDown"
     /\ \A relativeX \in PointerXs :
          MouseDown(relativeX)
            => LET baseIndex == FindNearestBase(relativeX + scrollX, peakLocations, xScale, isDragging)
               IN IF baseIndex >= 0
                  THEN /\ isDragging'
                       /\ dragStartBase' = baseIndex
                       /\ selection' = NoSelection
                  ELSE UNCHANGED <<isDragging, dragStartBase, dragCurrentBase, selection>>
     /\ (call'.op = "mouseUp" /\ isDragging)
          => /\ ~isDragging'
             /\ dragStartBase' = -1
             /\ dragCurrentBase' = -1]_vars
\* a mousedown that resolved to no base and left a selection on display
C29_Witness ==
  /\ call.op = "mouseDown"
  /\ ~isDragging
  /\ selection # NoSelection

(***************************************************************************)
(* Properties of the auto-scroll of a drag (specification SpecAutoScroll)  *)
(***************************************************************************)
\* C30: while Dragging with the pointer in the edge zone, the view keeps
\* scrolling toward the edge until the pointer leaves the zone, the drag
\* ends or the scroll offset reaches its limit, also when the pointer stays
\* where it is.
C30_AutoScrollContinues == InEdgeZone ~> ~InEdgeZone

(***************************************************************************)
(* Properties of the quality trim (specification SpecQuality)              *)
(***************************************************************************)
\* the sum of the 5 scores before and the 5 scores after position i
TotalAround(i) ==
  LET at(j) == qualityScores[j + 1]
  IN at(i - 5) + at(i - 4) + at(i - 3) + at(i - 2) + at(i - 1)
       + at(i + 1) + at(i + 2) + at(i + 3) + at(i + 4) + at(i + 5)
\* the positions 5 .. len - 6 whose window average is at least upper
ReachedUpper(upper) ==
  {i \in 5 .. Len(qualityScores) - 6 : TotalAround(i) >= 10 * upper}
\* C31: for 11 or more scores with a position of the scan 5 .. len - 6 at
\* which the window average is at least upperThreshold, trimStart is the
\* first such position, and trimEnd is the last such position up to the
\* first position from trimStart on at which the average is below
\* lowerThreshold, or up to the end of the scan when there is none.
C31_SingleScan ==
  (/\ call.op = "previewQualityTrim"
   /\ Len(qualityScores) >= 11
   /\ ReachedUpper(call.upper) # {})
    => LET reached == ReachedUpper(call.upper)
           first == CHOOSE i \in reached : \A j \in reached : i <= j
           falls == {i \in first .. Len(qualityScores) - 6 : TotalAround(i) < 10 * call.lower}
           stop == IF falls = {} THEN Len(qualityScores) - 6
                   ELSE CHOOSE i \in falls : \A j \in falls : i <= j
           lastGood == CHOOSE i \in reached : i <= stop /\ \A j \in reached : j <= stop => j <= i
       IN call.trimPoints = [trimStart |-> first, trimEnd |-> lastGood]
\* a preview whose scan stopped at a fall-off before its end
C31_Witness ==
  /\ call.op = "previewQualityTrim"
  /\ Len(qualityScores) >= 11
  /\ ReachedUpper(call.upper) # {}
  /\ \E i \in 5 .. Len(qualityScores) - 6 :
       /\ i > call.trimPoints.trimEnd
       /\ TotalAround(i) < 10 * call.lower
  /\ call.trimPoints.trimStart < call.trimPoints.trimEnd

(***************************************************************************)
(* Properties of the trimmed traces (specification SpecRaw)                *)
(***************************************************************************)
\* the samples [from, to) of a channel that holds the samples [t.lo, t.hi)
\* of its file, as far as the channel has them
SamplesOf(t, from, to) ==
  LET a == t.lo + Max(0, from)
      b == t.lo + Min(t.hi - t.lo, to)
  IN IF b <= a THEN [lo |-> 0, hi |-> 0] ELSE [lo |-> a, hi |-> b]
\* C32: after a successful applyTrim(start, end) the processed traces and,
\* when present, the raw traces hold their samples from
\* peakLocations[start] - padding up to but not including
\* peakLocations[end] + padding + 1, and every re-based peak location is an
\* index of the new trace arrays.
C32_TrimmedTracesHoldPeaks ==
  [][(call'.op = "applyTrim" /\ call'.success)
       => \E start \in Args, end \in Args :
            /\ ~TrimRejected(start, end)
            /\ LET lo == Min(start, end)
                   hi == Max(start, end)
               IN /\ lo >= 0
                  /\ hi < Len(sequence)
                  /\ sequence' = SubSeq(sequence, lo + 1, hi + 1)
                  /\ LET from == peakLocations[lo + 1] - tracePadding
                         to == peakLocations[hi + 1] + tracePadding + 1
                     IN /\ traces' = SamplesOf(traces, from, to)
                        /\ raw.installed
                             => [lo |-> raw'.lo, hi |-> raw'.hi]
                                  = SamplesOf([lo |-> raw.lo, hi |-> raw.hi], from, to)
            /\ \A i \in 1 .. Len(peakLocations') :
                 /\ peakLocations'[i] >= 0
                 /\ peakLocations'[i] < TraceLength(traces')]_vars

(***************************************************************************)
(* Properties of the modification markers (specification SpecHistory,      *)
(* whose one file is FileGA and which has no trim)                         *)
(***************************************************************************)
\* C33: after any sequence of edits, undos and redos an index carries a
\* modification marker exactly when its base differs from the base it had
\* when the file was loaded.
C33_MarkersShowChanges ==
  loaded =>
    \A i \in 0 .. Len(sequence) - 1 :
      (i \in modifications) <=> (sequence[i + 1] # FileGA.sequence[i + 1])

(***************************************************************************)
(* Properties of the search matches under edits (specification             *)
(* SpecSearchEdit, whose one pattern that is not empty is g)               *)
(***************************************************************************)
\* C34: after any sequence of searches, edits, undos, redos and trims every
\* stored search match is an occurrence of the searched pattern g in the
\* sequence on display.
C34_MatchesAreOccurrences ==
  \A k \in 1 .. Len(searchMatches) :
    LET match == searchMatches[k]
    IN /\ match.end = match.start
       /\ InRange(match.start, Len(sequence))
       /\ ToUpperCase(<<sequence[match.start + 1]>>) = <<"G">>

(***************************************************************************)
(* Properties of the edit history across loads and trims (specification    *)
(* SpecSearchEdit)                                                         *)
(***************************************************************************)
\* C35: after a load and after a successful trim the undo stack and the
\* redo stack are empty, and while both are empty undo() and redo() return
\* false and leave the sequence as it is.
C35_HistoryClearedWithModel ==
  [][/\ (Load(FileGA) \/ (call'.op = "applyTrim" /\ call'.success))
          => undoStack' = <<>> /\ redoStack' = <<>>
     /\ (undoStack = <<>> /\ redoStack = <<>> /\ call'.op \in {"undo", "redo"})
          => ~call'.ok /\ sequence' = sequence]_vars
\* an undo refused after the trim of an edited file
C35_Witness ==
  /\ call.op = "undo"
  /\ ~call.ok
  /\ sequence = <<"N">>
  /\ undoStack = <<>> /\ redoStack = <<>>

C37_TrimPointsInRange ==
  [][\A t \in TrimThresholds :
       (/\ Len(qualityScores) > 0
        /\ Len(qualityScores) = Len(sequence)
        /\ ApplyQualityTrim(t[1], t[2]))
         => LET trimPoints == FindTrimPoints(qualityScores, t[1], t[2])
                length == Len(qualityScores)
            IN /\ 0 <= trimPoints.trimStart
               /\ trimPoints.trimStart <= trimPoints.trimEnd
               /\ trimPoints.trimEnd <= length - 1
               /\ length >= 11 => /\ 5 <= trimPoints.trimStart
                                  /\ trimPoints.trimEnd <= length - 6
               /\ call'.success
               /\ Len(sequence') = trimPoints.trimEnd - trimPoints.trimStart + 1
               /\ Len(sequence') >= 1]_vars
\* a quality trim that cut a file of 11 or more scores to a shorter range of
\* several bases
C37_Witness ==
  /\ call.op = "applyTrim"
  /\ call.success
  /\ Len(sequence) \in 2 .. 9
  /\ Len(qualityScores) = Len(sequence)

(***************************************************************************)
(* Properties of the nearest-base lookup (specification SpecDrag)          *)
(***************************************************************************)
\* the pixels of the canvas and beyond
CanvasPixels == 0 .. 8 * ContainerWidth
\* the base found at pixel x is at the least distance of all peaks, and none
\* is found exactly when every peak is further than limit / scale samples
NearestWithin(x, found, limit) ==
  LET located == {i \in 1 .. Len(peakLocations) : peakLocations[i] # NaN}
  IN /\ found # -1 =>
          /\ found + 1 \in located
          /\ \A j \in located : PeakDistance(peakLocations, found + 1, x, xScale)
                                  <= PeakDistance(peakLocations, j, x, xScale)
     /\ found = -1 <=>
          \A j \in located : PeakDistance(peakLocations, j, x, xScale) > limit * xScale[2]
\* C38: the nearest-base lookup returns a base whose peak location has the
\* least absolute distance to pixel / scale, or none when that distance
\* exceeds the threshold, 20 / scale when idle and the larger 100 / scale
\* during a drag, so that every pixel that resolves to a base when idle
\* resolves to the same base while dragging.
C38_DragLookupMoreLenient ==
  \A x \in CanvasPixels :
    LET idle == FindNearestBase(x, peakLocations, xScale, FALSE)
        drag == FindNearestBase(x, peakLocations, xScale, TRUE)
    IN /\ NearestWithin(x, idle, 20)
       /\ NearestWithin(x, drag, 100)
       /\ idle # -1 => drag = idle
\* a move of a drag at a pixel that resolves to no base when idle and to a
\* base while dragging
C38_Witness ==
  /\ isDragging
  /\ call.op = "mouseMove"
  /\ \E relativeX \in PointerXs :
       /\ PointerOnCanvas(relativeX)
       /\ FindNearestBase(relativeX + scrollX, peakLocations, xScale, FALSE) = -1
       /\ FindNearestBase(relativeX + scrollX, peakLocations, xScale, TRUE) = dragCurrentBase

(***************************************************************************)
(* Properties of the data of a tag (specification SpecParser)              *)
(***************************************************************************)
\* the entry of a tag in the directory of the parser
EntryOfTag(key) == parser.directory[FindEntry(parser, key[1], key[2])]
\* C39: the value of an entry whose data size is at most 4 is decoded from
\* the 4 bytes of its dataoffset field, whatever the file holds at that
\* offset; the value of an entry whose data size is more than 4 is decoded
\* from the file, from the big-endian offset in the field on.
C39_DataLocation ==
  [][\A key \in ProbeTags :
       (/\ parser.parsed
        /\ ~IsCached(parser, key)
        /\ FindEntry(parser, key[1], key[2]) # 0
        /\ GetTagData(key[1], key[2]))
         => LET entry == EntryOfTag(key)
                result == GetTagDataOf(parser, key[1], key[2]).result
                field == entry.dataoffset
            IN IF entry.datasize <= 4
               THEN result = DecodeAt(<<field.hi \div 256, field.hi % 256,
                                        field.lo \div 256, field.lo % 256>>, 0, entry)
               ELSE result = DecodeAt(parser.buffer,
                                      IF field.hi > 0 \/ field.lo >= BeyondBuffer
                                      THEN BeyondBuffer ELSE field.lo, entry)]_vars
\* decoded values of a tag of at most 4 bytes and of a tag of more
C39_Witness ==
  /\ call.op = "getTagData"
  /\ call.outcome = "data"
  /\ \E s \in parser.tags, t \in parser.tags :
       /\ FindEntry(parser, s.key[1], s.key[2]) # 0
       /\ FindEntry(parser, t.key[1], t.key[2]) # 0
       /\ EntryOfTag(s.key).datasize <= 4
       /\ EntryOfTag(t.key).datasize > 4
       /\ s.key[1] = TagTEST
       /\ t.key[1] = TagTEST

(***************************************************************************)
(* Properties of the cache of tag data (specification SpecCache)           *)
(***************************************************************************)
\* the cache of the parser holds the key
Holds(p, key) == \E t \in p.tags : t.key = key
\* the data the cache of the parser holds for the key
Held(p, key) == (CHOOSE t \in p.tags : t.key = key).data
\* C40 as stated: parse() decodes no tag value, the first getTagData(name,
\* number) for an existing entry decodes it, and every later call with the
\* same key, also after getAllData, returns the cached value without
\* decoding again.
C40_EveryLaterCallCached ==
  [][/\ call'.op = "parse" => parser'.decoded = 0 /\ parser'.tags = {}
     /\ \A key \in CacheTags :
          (/\ parser.parsed
           /\ FindEntry(parser, key[1], key[2]) # 0
           /\ GetTagData(key[1], key[2]))
            => IF key \in run.asked \/ Holds(parser, key)
               THEN /\ parser'.decoded = parser.decoded
                    /\ Holds(parser, key)
                    /\ parser'.tags = parser.tags
               ELSE parser'.decoded = parser.decoded + 1]_vars
\* C40: parse() decodes no tag value; getTagData(name, number) for an
\* existing entry whose key the cache does not hold decodes it, and caches
\* the value unless decoding throws; every call for a key the cache holds,
\* after a call that returned a value or after getAllData, returns the
\* cached value without decoding again.
C40_LazyAndCached ==
  [][/\ call'.op = "parse" => parser'.decoded = 0 /\ parser'.tags = {}
     /\ \A key \in CacheTags :
          (/\ parser.parsed
           /\ FindEntry(parser, key[1], key[2]) # 0
           /\ GetTagData(key[1], key[2]))
            => LET result == GetTagDataOf(parser, key[1], key[2]).result
               IN IF Holds(parser, key)
                  THEN /\ parser'.decoded = parser.decoded
                       /\ parser'.tags = parser.tags
                       /\ result = Held(parser, key)
                  ELSE /\ parser'.decoded = parser.decoded + 1
                       /\ IF IsThrown(result) THEN parser'.tags = parser.tags
                          ELSE /\ Holds(parser', key)
                               /\ Held(parser', key) = result]_vars
\* a tag asked for again when the cache holds every tag of the file, after
\* as many extractions as the cache holds values
C40_Witness ==
  /\ parser.parsed
  /\ call.op = "getTagData"
  /\ call.outcome = "data"
  /\ run.repeated
  /\ parser.decoded = Cardinality(parser.tags)
  /\ Cardinality(parser.tags) = Len(parser.directory)
====
